---- MODULE Spec2Model ----
(***************************************************************************)
(* Case manager: the case collection held by App (src/src/App.tsx), the   *)
(* date index and counters derived from it, the view router, and the      *)
(* export / import of the collection (src/components/DataManagementView). *)
(*                                                                         *)
(* The search view (src/components/SearchView.tsx) filters and sorts it.   *)
(*                                                                         *)
(* A case is a record over Keys: id, status, nextDate and the five text    *)
(* fields the search reads.  The other fields of Case (src/src/types.ts)   *)
(* are carried along unchanged by every operation modelled here and are    *)
(* left out.  A field that a JavaScript object does not have (undefined)   *)
(* is the value Absent.                                                    *)
(***************************************************************************)
EXTENDS Integers, Sequences, FiniteSets, TLC

VARIABLES
    cases,                \* App: the `cases` state (the value React holds)
    seen,                 \* App: the `cases` the rendered closures captured
    persistOk,            \* useLocalStorage: whether the last write to the store succeeded
    currentView,          \* App: currentView
    selectedCase,         \* App: selectedCase (NoCase is null)
    formCase,             \* CaseForm: the existingCase its caseData state was
                          \* initialised from (NoCase: a new case, or no form)
    initialSearchFilter,  \* App: initialSearchFilter
    exportFile,           \* the file handed to saveAs by the last export
    exported,             \* the collection that export wrote (<<>> when there
                          \* was no export)
    alertMsg,             \* the alert() shown by the last handler ("" when none)
    confirmResult,        \* window.confirm in the last handler: "none", "accepted", "declined"
    crashed,              \* the last render threw: the React tree is unmounted
    lastOp,               \* the handler that ran last: "save:replace", "save:append",
                          \* "import", "export", "cancel", or "other"
    saved,                \* SpecSaves: per identifier, the case most recently passed
                          \* to handleSaveCase (NoCase when none was)
    search,               \* SearchView: its searchTerm and filterStatus state
                          \* (SearchUnmounted while the view is not on screen)
    form,                 \* SpecForm: the state of a CaseForm on screen, its
                          \* debounce timer and its prediction requests in flight
    tool,                 \* SpecTool: the state of a DraftingTool on screen and
                          \* its requests in flight
    apiKey,               \* geminiService: whether API_KEY is set
    reads                 \* DataManagementView: the files of the FileReaders
                          \* handleFileChange started whose load or error event
                          \* is still to come

vars == <<cases, seen, persistOk, currentView, selectedCase, formCase,
          initialSearchFilter, exportFile, exported, alertMsg, confirmResult,
          crashed, lastOp, saved, search, form, tool, apiKey, reads>>

----
\* Bounds.

\* Appending is capped at this many cases.
MaxCases == 2

\* Longest collection a sequence of saves is started from (SpecSaves).
MaxInit == 1

\* Longest collection handed to the search view (SpecSearch).
MaxSearch == 3

\* Most FileReaders of the import reading at once.
MaxReads == 1

\* Longest history a case form builds (SpecForm).
MaxHistory == 2

\* Most stage predictions a case form has in flight (SpecForm).
MaxFlights == 2

\* Most messages the user sends to the chat (SpecTool).
MaxChat == 2

\* Most requests to the gateway a drafting tool has in flight (SpecTool).
MaxTasks == 2

\* Most files a drafting tool is converting at a time (SpecTool).
MaxUploads == 2

----
\* Values.

Absent == "<absent>"

\* The members of a case the model follows.
Keys == {"id", "status", "nextDate", "title", "caseNumber", "courtName",
         "caseType", "representing"}

NoCase ==
    [id |-> Absent, status |-> Absent, nextDate |-> "<null>", title |-> Absent,
     caseNumber |-> Absent, courtName |-> Absent, caseType |-> Absent,
     representing |-> Absent]

\* A case as CaseForm submits it: the required inputs (title, caseNumber,
\* courtName) hold text, the optional ones (caseType, representing) hold what
\* lines 149-150 initialise them to.
MkCase(i, st, d) ==
    [id |-> i, status |-> st, nextDate |-> d, title |-> "Smith",
     caseNumber |-> "12", courtName |-> "High", caseType |-> "",
     representing |-> ""]

\* uuidv4() results; an edited case keeps the identifier it has.
FormIds == {"a", "b"}

\* <option> values of the status <select>.
FormStatuses == {"Pending", "Decided"}

\* Values of <input type="date">: empty or YYYY-MM-DD.
FormDates == {"", "2024-06-01", "2024-06-02"}

Views == {"calendar", "add_case", "drafting", "search", "data"}

Filters == {"All", "Pending", "Decided"}

\* JavaScript truthiness of a string-or-undefined field.
Truthy(v) == v # Absent /\ v # ""

\* new Date(s).toISOString().split('T')[0]; "throws" stands for the RangeError
\* that toISOString raises on an Invalid Date.
ToISODate(s) ==
    CASE s = "2024-06-01" -> "2024-06-01"
      [] s = "2024-06-02" -> "2024-06-02"
      [] s = "2024-06-01T10:00:00Z" -> "2024-06-01"
      [] OTHER -> "throws"

----
\* Sequences.

Range(s) == {s[i] : i \in 1..Len(s)}

RECURSIVE SelectIdx(_, _, _)
\* The elements of s at the indices >= from that are in keep, in order.
SelectIdx(s, from, keep) ==
    IF from > Len(s) THEN <<>>
    ELSE IF from \in keep THEN <<s[from]>> \o SelectIdx(s, from + 1, keep)
    ELSE SelectIdx(s, from + 1, keep)

\* cases.filter(pred): the subsequence at the indices in keep.
Filter(s, keep) == SelectIdx(s, 1, keep)

\* cases.findIndex(c => c.id === id), 1-based; 0 stands for -1.
FindIndex(cs, id) ==
    IF \E i \in 1..Len(cs) : cs[i].id = id
    THEN CHOOSE i \in 1..Len(cs) :
            /\ cs[i].id = id
            /\ \A j \in 1..(i - 1) : cs[j].id # id
    ELSE 0

\* All sequences over S of length at most n.
SeqsUpTo(S, n) == UNION {[1..k -> S] : k \in 0..n}

----
\* Derivation layer (App.tsx, the two useMemo blocks).

\* OnCalendar without the status test.
OnCalendarAnyStatus(c) == Truthy(c.nextDate)

\* The test of line 21: c.nextDate && c.status === 'Pending'.
OnCalendar(c) == Truthy(c.nextDate) /\ c.status = "Pending"

\* Whether computing the index throws (toISOString on an Invalid Date).
IndexThrows(cs) ==
    \E i \in 1..Len(cs) : OnCalendar(cs[i]) /\ ToISODate(cs[i].nextDate) = "throws"

\* The keys of the Map built by casesByDate.
IndexKeys(cs) ==
    {ToISODate(cs[i].nextDate) : i \in {j \in 1..Len(cs) : OnCalendar(cs[j])}}

\* casesByDate: date string -> the cases pushed under it, in collection order.
\* Meaningful when ~IndexThrows(cs).
CasesByDate(cs) ==
    [k \in IndexKeys(cs) |->
        Filter(cs, {i \in 1..Len(cs) :
                      OnCalendar(cs[i]) /\ ToISODate(cs[i].nextDate) = k})]

\* CaseStats counting by the negated tests: pending as "not Decided", decided
\* as "not Pending".
CaseStatsNegated(cs) ==
    [total   |-> Len(cs),
     pending |-> Len(Filter(cs, {i \in 1..Len(cs) : cs[i].status # "Decided"})),
     decided |-> Len(Filter(cs, {i \in 1..Len(cs) : cs[i].status # "Pending"}))]

\* caseStats.
CaseStats(cs) ==
    [total   |-> Len(cs),
     pending |-> Len(Filter(cs, {i \in 1..Len(cs) : cs[i].status = "Pending"})),
     decided |-> Len(Filter(cs, {i \in 1..Len(cs) : cs[i].status = "Decided"}))]

----
\* Search (SearchView.tsx, the useMemo of filteredCases).

\* The characters of the strings the model uses.
Chars(s) ==
    CASE s = "" -> <<>>
      [] s = "Smith" -> <<"S", "m", "i", "t", "h">>
      [] s = "Doe" -> <<"D", "o", "e">>
      [] s = "12" -> <<"1", "2">>
      [] s = "High" -> <<"H", "i", "g", "h">>
      [] s = "Bail" -> <<"B", "a", "i", "l">>
      [] s = "SMI" -> <<"S", "M", "I">>
      [] s = "ai" -> <<"a", "i">>
      [] s = "   " -> <<" ", " ", " ">>
      [] s = "Plaint" -> <<"P", "l", "a", "i", "n", "t">>
      [] s = " Adjourned " ->
            <<" ", "A", "d", "j", "o", "u", "r", "n", "e", "d", " ">>
      [] s = "Issues framed" ->
            <<"I", "s", "s", "u", "e", "s", " ", "f", "r", "a", "m", "e", "d">>
      [] s = "Evidence closed" ->
            <<"E", "v", "i", "d", "e", "n", "c", "e", " ", "c", "l", "o", "s",
              "e", "d">>

\* One character of String.prototype.toLowerCase.
Lower(ch) ==
    CASE ch = "S" -> "s"
      [] ch = "M" -> "m"
      [] ch = "I" -> "i"
      [] ch = "D" -> "d"
      [] ch = "H" -> "h"
      [] ch = "B" -> "b"
      [] OTHER -> ch

\* s.toLowerCase(), on characters.
ToLowerCase(t) == [i \in 1..Len(t) |-> Lower(t[i])]

\* hay.includes(needle), on characters.
Includes(hay, needle) ==
    \E k \in 0..(Len(hay) - Len(needle)) :
        \A i \in 1..Len(needle) : hay[k + i] = needle[i]

\* v.toLowerCase().includes(term) with term = searchTerm.toLowerCase().
FieldIncludes(v, searchTerm) ==
    Includes(ToLowerCase(Chars(v)), ToLowerCase(Chars(searchTerm)))

\* Lines 38-43, when no operand throws.
MatchesSearch(c, searchTerm) ==
    \/ FieldIncludes(c.title, searchTerm)
    \/ FieldIncludes(c.caseNumber, searchTerm)
    \/ FieldIncludes(c.courtName, searchTerm)
    \/ Truthy(c.caseType) /\ FieldIncludes(c.caseType, searchTerm)
    \/ Truthy(c.representing) /\ FieldIncludes(c.representing, searchTerm)

\* Lines 38-43 throw a TypeError: toLowerCase is called on the undefined
\* title, caseNumber or courtName of c, the operands being evaluated left to
\* right until one is true.
MatchThrows(c, searchTerm) ==
    \/ c.title = Absent
    \/ /\ ~FieldIncludes(c.title, searchTerm)
       /\ \/ c.caseNumber = Absent
          \/ /\ ~FieldIncludes(c.caseNumber, searchTerm)
             /\ c.courtName = Absent

\* Lines 45-46.
MatchesStatus(c, filterStatus) == filterStatus = "All" \/ c.status = filterStatus

\* The filter callback throws on some case of the collection.
SearchThrows(cs, searchTerm) ==
    \E i \in 1..Len(cs) : MatchThrows(cs[i], searchTerm)

\* Whether new Date(s).getTime() is a number (NaN otherwise).
ValidDate(s) == s \in {"2024-06-01", "2024-06-02", "2024-06-01T10:00:00Z"}

\* new Date(s).getTime() of a valid date, in hours since 2024-06-01T00:00Z.
GetTime(s) ==
    CASE s = "2024-06-01" -> 0
      [] s = "2024-06-01T10:00:00Z" -> 10
      [] s = "2024-06-02" -> 24

\* The comparator of line 49 as Array.prototype.sort uses it: a NaN result
\* counts as 0.
Compare(a, b) ==
    IF ValidDate(a.nextDate) /\ ValidDate(b.nextDate)
    THEN GetTime(b.nextDate) - GetTime(a.nextDate)
    ELSE 0

\* Array.prototype.sort as V8 runs it on an array shorter than 64 elements:
\* the run at the start of the array is found (and reversed if strictly
\* descending), then every later element is put in place by binary insertion.

RECURSIVE RunEnd(_, _, _)
\* The length of the run at the start of s, idx being the next 1-based index.
RunEnd(s, idx, isDescending) ==
    IF idx > Len(s) THEN Len(s)
    ELSE LET order == Compare(s[idx], s[idx - 1]) IN
         IF (isDescending /\ order >= 0) \/ (~isDescending /\ order < 0)
         THEN idx - 1
         ELSE RunEnd(s, idx + 1, isDescending)

Reverse(s) == [i \in 1..Len(s) |-> s[Len(s) + 1 - i]]

RECURSIVE BinarySearch(_, _, _, _)
\* The 0-based position binary insertion finds for pivot in s[left..right-1].
BinarySearch(s, pivot, left, right) ==
    IF left >= right THEN left
    ELSE LET mid == left + ((right - left) \div 2) IN
         IF Compare(pivot, s[mid + 1]) < 0
         THEN BinarySearch(s, pivot, left, mid)
         ELSE BinarySearch(s, pivot, mid + 1, right)

RECURSIVE BinaryInsertionSort(_, _)
\* Binary insertion of the elements at the 0-based indices start.. of s.
BinaryInsertionSort(s, start) ==
    IF start >= Len(s) THEN s
    ELSE LET pivot == s[start + 1]
             left  == BinarySearch(s, pivot, 0, start)
             moved == SubSeq(s, 1, left) \o <<pivot>> \o SubSeq(s, left + 1, start)
                         \o SubSeq(s, start + 2, Len(s))
         IN  BinaryInsertionSort(moved, start + 1)

ArraySort(s) ==
    IF Len(s) < 2 THEN s
    ELSE LET isDescending == Compare(s[2], s[1]) < 0
             runLength    == RunEnd(s, 3, isDescending)
             run          == IF isDescending
                             THEN Reverse(SubSeq(s, 1, runLength))
                                     \o SubSeq(s, runLength + 1, Len(s))
                             ELSE s
         IN  BinaryInsertionSort(run, runLength)

\* filteredCases, lines 35-50.  Meaningful when ~SearchThrows(cs, searchTerm).
FilteredCases(cs, searchTerm, filterStatus) ==
    ArraySort(Filter(cs, {i \in 1..Len(cs) :
                            /\ MatchesSearch(cs[i], searchTerm)
                            /\ MatchesStatus(cs[i], filterStatus)}))

\* The state of a SearchView that is not on screen.
SearchUnmounted == [searchTerm |-> "", filterStatus |-> "<none>"]

\* The SearchView after a handler that leaves view `before` for view `after`:
\* its state is initialised (lines 32-33) when the view becomes search, from
\* the initialFilterStatus prop of that render; a SearchView that stays on
\* screen keeps the state it has.
SearchAfter(before, after, initialFilterStatus, s) ==
    IF after # "search" THEN SearchUnmounted
    ELSE IF before = "search" THEN s
    ELSE [searchTerm |-> "", filterStatus |-> initialFilterStatus]

\* The text typed into the search box.
SearchTerms == {"", "SMI", "ai"}

----
\* AI gateway (services/geminiService.ts).

ApiKeyMissing == "API Key not configured."

PredictFailed == "Could not predict next stage."

\* response.text.trim() of a prediction the gateway answers.
GatewayStages == {"Framing of Issues"}

DraftFailed == "Could not generate draft. Please try again."

ReviewFailed == "Could not analyze document. An error occurred during streaming."

ChatFailed == "Could not get advice. An error occurred during streaming."

\* response.text of a draft the gateway answers.
GatewayDrafts == {"IN THE COURT OF [COURT NAME]"}

\* What predictNextStage resolves to, lines 11-64: the sentinel of line 12
\* without a key; with one, the gateway's answer or, when the call throws, the
\* sentinel of line 62.  It never rejects.
PredictNextStage(key) ==
    IF ~key THEN {ApiKeyMissing} ELSE GatewayStages \cup {PredictFailed}

\* What generateDraft resolves to, lines 66-90.
GenerateDraft(key) ==
    IF ~key THEN {ApiKeyMissing} ELSE GatewayDrafts \cup {DraftFailed}

\* Streamed text is a sequence of tokens: a brace, a member "k": v of a JSON
\* object, or a run of other characters.
Tok(t, k, v) == [t |-> t, k |-> k, v |-> v]

LBrace == Tok("{", "", "")

RBrace == Tok("}", "", "")

Pair(k, v) == Tok("member", k, v)

Prose(v) == Tok("prose", "", v)

\* JSON.stringify({ error: message }).
StringifyError(message) == <<LBrace, Pair("error", message), RBrace>>

\* The members of an analysis that DraftingTool renders with AnalysisCard.
CardKeys ==
    {"summaryOfIssues", "missingLegalElements", "proceduralDefects",
     "suggestedImprovements", "questionsForClarification"}

\* The chunks the gateway streams for a review before the stream ends: a
\* JSON analysis inside other text, in two chunks, an analysis that lacks
\* members, or text without an object.
GatewayReviews ==
    {<<<<Prose("Here is the analysis:"), LBrace,
         Pair("summaryOfIssues", "No prayer clause"),
         Pair("missingLegalElements", "Cause of action"),
         Pair("proceduralDefects", "None")>>,
       <<Pair("suggestedImprovements", "Add a prayer"),
         Pair("questionsForClarification", "Which court?"),
         Pair("revisedFullDraft", "PLAINT"), RBrace, Prose("End of analysis.")>>>>,
     <<<<LBrace, Pair("summaryOfIssues", "No prayer clause"), RBrace>>>>,
     <<<<Prose("I cannot review this document.")>>>>}

\* The chunks the gateway streams for a review before the stream throws.
GatewayReviewsCut ==
    {<<>>, <<<<Prose("Here is the analysis:"), LBrace, Pair("summaryOfIssues", "No prayer clause")>>>>}

\* The chunks the gateway streams for a chat answer before the stream ends.
GatewayAnswers == {<<<<Prose("File a bail")>>, <<Prose(" application.")>>>>}

\* The chunks the gateway streams for a chat answer before the stream throws.
GatewayAnswersCut == {<<>>, <<<<Prose("File a bail")>>>>}

\* The chunks reviewDocumentStream yields, lines 104-154: the JSON error
\* of line 106 without a key; with one, the chunks of the gateway, followed by
\* the JSON error of line 152 when the gateway throws.
ReviewDocumentStream(key) ==
    IF ~key THEN {<<StringifyError(ApiKeyMissing)>>}
    ELSE GatewayReviews
         \cup {Append(chunks, StringifyError(ReviewFailed)) : chunks \in GatewayReviewsCut}

\* The chunks getSeniorCounselChatAdviceStream yields, lines 178-200.
GetSeniorCounselChatAdviceStream(key) ==
    IF ~key THEN {<<StringifyError(ApiKeyMissing)>>}
    ELSE GatewayAnswers
         \cup {Append(chunks, StringifyError(ChatFailed)) : chunks \in GatewayAnswersCut}

----
\* CaseForm (DataManagementView.tsx, lines 141-215).  Of caseData the model
\* follows diaryNotes, nextDate, currentStage and history.

\* s without its k-th element.
RemoveAt(s, k) == SubSeq(s, 1, k - 1) \o SubSeq(s, k + 1, Len(s))

RECURSIVE TrimStart(_)
TrimStart(t) ==
    IF t # <<>> /\ Head(t) = " " THEN TrimStart(Tail(t)) ELSE t

\* s.trim(), on characters.
Trim(t) == Reverse(TrimStart(Reverse(TrimStart(t))))

\* s.trim() === ''.
Blank(s) == Trim(Chars(s)) = <<>>

\* The texts typed into the diary.
FormNotes == {"", "   ", " Adjourned ", "Evidence closed", "Issues framed"}

\* The texts typed into the diary of a case whose history is followed.
HistoryNotes == {"", "   ", "Evidence closed"}

\* new Date().toISOString().split('T')[0] on the day the form is used.
Today == "2024-06-03"

\* The caseData of a new case, lines 143-157.
NewCaseData ==
    [diaryNotes |-> "", nextDate |-> "", currentStage |-> "", history |-> <<>>]

\* An entry recorded at an earlier hearing.
OldEntry ==
    [date |-> "2024-05-01", proceedings |-> "Evidence closed",
     stage |-> "Case Initiation", nextDate |-> "2024-06-01"]

\* The cases the form is opened for: null (NoCase) or a case of the
\* collection.
ExistingCases ==
    {[diaryNotes |-> "", nextDate |-> "2024-06-01", currentStage |-> "",
      history |-> <<>>],
     [diaryNotes |-> "", nextDate |-> "2024-06-01",
      currentStage |-> "Framing of Issues", history |-> <<OldEntry>>],
     [diaryNotes |-> "Evidence closed", nextDate |-> "2024-06-01",
      currentStage |-> "Framing of Issues", history |-> <<OldEntry>>]}

\* A call of predictNextStage that handlePredictStage awaits: notes is the
\* diary it was made for, prediction what it will resolve to, stale whether a
\* call made after it, for another diary, has already resolved.
Request(notes, prediction) ==
    [notes |-> notes, prediction |-> prediction, stale |-> FALSE]

NoRequest == Request("", "")

\* No CaseForm on screen.
FormUnmounted ==
    [mounted |-> FALSE, existing |-> FALSE, caseData |-> NewCaseData,
     predictedStage |-> "", isPredicting |-> FALSE, stageOfHearing |-> "",
     timer |-> FALSE, requests |-> <<>>, shown |-> NoRequest]

\* The state of a CaseForm after its first render, lines 142-162 and the
\* effect of lines 179-189: existingCase is a case or NoCase.
MountForm(existingCase) ==
    LET caseData == IF existingCase = NoCase THEN NewCaseData ELSE existingCase
    IN  [mounted |-> TRUE,
         existing |-> existingCase # NoCase,
         caseData |-> caseData,
         predictedStage |-> "",
         isPredicting |-> FALSE,
         stageOfHearing |-> IF existingCase # NoCase /\ existingCase.currentStage # ""
                             THEN existingCase.currentStage
                             ELSE "Case Initiation",
         timer |-> ~Blank(caseData.diaryNotes),
         requests |-> <<>>,
         shown |-> NoRequest]

\* setCaseData(newCaseData) and the render after it: handlePredictStage is a
\* new function, so the effect of lines 179-189 clears the debounce timer and
\* sets a new one unless the diary is blank.
SetCaseData(f, newCaseData) ==
    [f EXCEPT !.caseData = newCaseData, !.timer = ~Blank(newCaseData.diaryNotes)]

\* handleChange, lines 164-167.
Changed(f, name, value) == SetCaseData(f, [f.caseData EXCEPT ![name] = value])

\* handlePredictStage up to its await, lines 170-173: the call is made for
\* the diary the callback captured; prediction is what it will resolve to.
PredictStarted(f, prediction) ==
    IF Len(Trim(Chars(f.caseData.diaryNotes))) > 10
    THEN [f EXCEPT !.isPredicting = TRUE, !.predictedStage = "",
                   !.shown = NoRequest,
                   !.requests = Append(@, Request(f.caseData.diaryNotes, prediction))]
    ELSE f

\* The calls left in flight once call k has resolved.
Overtaken(requests, k) ==
    LET others == RemoveAt(requests, k) IN
    [i \in 1..Len(others) |->
        IF i < k /\ others[i].notes # requests[k].notes
        THEN [others[i] EXCEPT !.stale = TRUE]
        ELSE others[i]]

\* PredictArrived dropping the answer of a stale call.
PredictArrivedFenced(f, k) ==
    IF f.requests[k].stale
    THEN [f EXCEPT !.requests = Overtaken(f.requests, k)]
    ELSE [f EXCEPT !.predictedStage = f.requests[k].prediction,
                   !.isPredicting = FALSE,
                   !.requests = Overtaken(f.requests, k),
                   !.shown = IF f.requests[k].prediction = "" THEN NoRequest
                             ELSE f.requests[k]]

\* handlePredictStage after its await, lines 174-175, for call k; shown
\* records the call whose answer is on screen.
PredictArrived(f, k) ==
    [f EXCEPT !.predictedStage = f.requests[k].prediction,
              !.isPredicting = FALSE,
              !.requests = Overtaken(f.requests, k),
              !.shown = IF f.requests[k].prediction = "" THEN NoRequest
                        ELSE f.requests[k]]

\* applyPredictedStage, lines 192-197.
Applied(f) ==
    IF f.predictedStage # "" /\ f.predictedStage # PredictFailed
    THEN [SetCaseData(f, [f.caseData EXCEPT !.currentStage = f.predictedStage])
             EXCEPT !.predictedStage = "", !.shown = NoRequest]
    ELSE f

\* setPredictedStage(''), line 309.
Rejected(f) == [f EXCEPT !.predictedStage = "", !.shown = NoRequest]

\* The entry handleAddHistory builds, lines 201-207.
HistoryEntry(f) ==
    [date |-> Today, proceedings |-> f.caseData.diaryNotes,
     stage |-> f.stageOfHearing, nextDate |-> f.caseData.nextDate]

\* AddedHistory with the new entry put last.
AddedHistoryLast(f) ==
    IF Blank(f.caseData.diaryNotes) THEN f
    ELSE [SetCaseData(f, [f.caseData EXCEPT
                             !.history = Append(@, HistoryEntry(f)),
                             !.diaryNotes = ""])
             EXCEPT !.stageOfHearing = f.caseData.currentStage]

\* handleAddHistory, lines 199-210.
AddedHistory(f) ==
    IF Blank(f.caseData.diaryNotes) THEN f
    ELSE [SetCaseData(f, [f.caseData EXCEPT
                             !.history = <<HistoryEntry(f)>> \o @,
                             !.diaryNotes = ""])
             EXCEPT !.stageOfHearing = f.caseData.currentStage]

----
\* JSON text.  A file is [kind, elems]: kind "array" holds one JSON object per
\* element, kind "object" is a single JSON object at top level, kind "garbage"
\* is text JSON.parse rejects, kind "none" is no file.  A JSON object is the set
\* of its <<key, value>> members.

NoFile == [kind |-> "none", elems |-> <<>>]

\* StringifyCase dropping every falsy member, not only the undefined ones.
StringifyCaseDropEmpty(c) == {<<k, c[k]>> : k \in {x \in Keys : Truthy(c[x])}}

\* JSON.stringify of one case: members whose value is undefined are omitted.
StringifyCase(c) == {<<k, c[k]>> : k \in {x \in Keys : c[x] # Absent}}

\* JSON.stringify(cases, null, 2).
Stringify(cs) ==
    [kind |-> "array", elems |-> [i \in 1..Len(cs) |-> StringifyCase(cs[i])]]

\* obj[k] of a parsed JSON object: undefined when the member is missing.
Member(obj, k) ==
    IF \E p \in obj : p[1] = k THEN (CHOOSE p \in obj : p[1] = k)[2] ELSE Absent

ParseObject(obj) == [k \in Keys |-> Member(obj, k)]

\* JSON.parse(text) throws a SyntaxError.
ParseThrows(f) == f.kind = "garbage"

\* Array.isArray(JSON.parse(text)).
IsArray(f) == f.kind = "array"

\* JSON.parse(text) of an array file, as cases.
ParseItems(f) == [i \in 1..Len(f.elems) |-> ParseObject(f.elems[i])]

----
\* DraftingTool (DataManagementView.tsx, lines 392-505).

\* text.indexOf(tok): 0 stands for -1.
IndexOf(text, tok) ==
    IF \E i \in 1..Len(text) : text[i] = tok
    THEN CHOOSE i \in 1..Len(text) :
            text[i] = tok /\ \A j \in 1..(i - 1) : text[j] # tok
    ELSE 0

\* text.lastIndexOf(tok): 0 stands for -1.
LastIndexOf(text, tok) ==
    IF \E i \in 1..Len(text) : text[i] = tok
    THEN CHOOSE i \in 1..Len(text) :
            text[i] = tok /\ \A j \in (i + 1)..Len(text) : text[j] # tok
    ELSE 0

\* JSON.parse(text) throws unless text is one object: braces around members.
JSONParseThrows(text) ==
    ~ /\ Len(text) >= 2
      /\ text[1] = LBrace
      /\ text[Len(text)] = RBrace
      /\ \A i \in 2..(Len(text) - 1) : text[i].t = "member"

\* JSON.parse(text) of one object, as the set of its members.
JSONParse(text) == {<<text[i].k, text[i].v>> : i \in 2..(Len(text) - 1)}

NoJsonError ==
    "Failed to process the AI's response. Reason: Valid JSON object not found in the AI response."

SyntaxError == "Failed to process the AI's response. Reason: Unexpected token"

\* analysis: null, or the object handleReview set.
NoAnalysis == [present |-> FALSE, obj |-> {}]

AnalysisOf(obj) == [present |-> TRUE, obj |-> obj]

\* Reviewed leaving the analysis null when the response holds no object.
ReviewedSilent(fullResponse) ==
    LET jsonStartIndex == IndexOf(fullResponse, LBrace)
        jsonEndIndex == LastIndexOf(fullResponse, RBrace)
    IN  IF jsonStartIndex = 0 \/ jsonEndIndex = 0 \/ jsonEndIndex < jsonStartIndex
        THEN NoAnalysis
        ELSE LET jsonString == SubSeq(fullResponse, jsonStartIndex, jsonEndIndex) IN
             IF JSONParseThrows(jsonString)
             THEN AnalysisOf({<<"error", SyntaxError>>})
             ELSE LET finalAnalysis == JSONParse(jsonString) IN
                  IF Truthy(Member(finalAnalysis, "error"))
                  THEN AnalysisOf({<<"error", Member(finalAnalysis, "error")>>})
                  ELSE AnalysisOf(finalAnalysis)

\* The analysis handleReview sets once the stream has ended, lines 446-465.
Reviewed(fullResponse) ==
    LET jsonStartIndex == IndexOf(fullResponse, LBrace)
        jsonEndIndex == LastIndexOf(fullResponse, RBrace)
    IN  IF jsonStartIndex = 0 \/ jsonEndIndex = 0 \/ jsonEndIndex < jsonStartIndex
        THEN AnalysisOf({<<"error", NoJsonError>>})
        ELSE LET jsonString == SubSeq(fullResponse, jsonStartIndex, jsonEndIndex) IN
             IF JSONParseThrows(jsonString)
             THEN AnalysisOf({<<"error", SyntaxError>>})
             ELSE LET finalAnalysis == JSONParse(jsonString) IN
                  IF Truthy(Member(finalAnalysis, "error"))
                  THEN AnalysisOf({<<"error", Member(finalAnalysis, "error")>>})
                  ELSE AnalysisOf(finalAnalysis)

\* A request to the gateway a handler awaits: kind is "generate", "review" or
\* "chat", input the text it was made for, result what generateDraft will
\* resolve to, stream the chunks the generator will yield, rest those still to
\* come, fullResponse the local variable of the handler.
Task(kind, input, result, stream) ==
    [kind |-> kind, input |-> input, result |-> result, stream |-> stream,
     rest |-> stream, fullResponse |-> <<>>]

\* The files the user picks for review: a text file, an image, a PDF with a
\* text layer, a scanned PDF and a video.  text is what the conversion yields;
\* for a PDF, pages is pdf.numPages and layer the length of the trimmed text of
\* its text layers.
Files ==
    {[name |-> "notes.txt", kind |-> "text", text |-> "Bail", pages |-> 0, layer |-> 0],
     [name |-> "brief.docx", kind |-> "docx", text |-> "Plaint", pages |-> 0, layer |-> 0],
     [name |-> "scan.png", kind |-> "image", text |-> "Plaint", pages |-> 0, layer |-> 0],
     [name |-> "brief.pdf", kind |-> "pdf", text |-> "Bail", pages |-> 1, layer |-> 400],
     [name |-> "scan.pdf", kind |-> "pdf", text |-> "Plaint", pages |-> 1, layer |-> 12],
     [name |-> "clip.mp4", kind |-> "other", text |-> "", pages |-> 0, layer |-> 0]}

\* Line 552: a trimmed text layer shorter than this per page makes the PDF a
\* scanned one.
LayerPerPage == 150

\* Line 552: the PDF goes through OCR.
Scanned(file) == file.layer < LayerPerPage * file.pages

ProcessedMessage == "File processed successfully!"

\* The message of the catch of lines 598-600.
ErrorMessage(file) ==
    IF file.kind = "other" THEN "Error: Unsupported file type: clip.mp4"
    ELSE "Error: conversion failed"

\* The message set before the first await of the conversion, lines 522, 539,
\* 586 and 591.
ProgressMessage(file) ==
    IF file.kind = "image" THEN "Image detected. Preparing OCR engine..."
    ELSE IF file.kind = "pdf" THEN "Processing PDF file..."
    ELSE IF file.kind = "docx" THEN "Processing DOCX file..."
    ELSE "Reading text file..."

\* What Tesseract reports to the logger: a status and, while it recognizes
\* text, the progress (here in hundredths; the job is that of page 1).
OcrReports ==
    {[status |-> "loading language traineddata", progress |-> 0],
     [status |-> "recognizing text", progress |-> 50],
     [status |-> "loading tesseract core", progress |-> 0]}

\* The message the logger sets for report m, lines 524-533 for an image and
\* lines 556-564 for a scanned PDF.
LoggerMessage(file, m) ==
    IF m.status = "recognizing text"
    THEN (IF file.kind = "image" THEN "Scanning document... Progress: "
          ELSE "Scanning page 1... Progress: ") \o ToString(m.progress) \o "%"
    ELSE IF m.status \in {"loading language traineddata", "initializing api"}
    THEN "Initializing AI Model (" \o m.status \o ")..."
    ELSE "Processing... (" \o m.status \o ")"

\* No DraftingTool on screen.  Of the state of the tool the model leaves out
\* uploadedFileName.
ToolUnmounted ==
    [mounted |-> FALSE, mode |-> "create", request |-> "", draft |-> "",
     uploadedText |-> "", analysis |-> NoAnalysis, analysedText |-> "",
     chatHistory |-> <<>>, userMessage |-> "", isLoading |-> FALSE,
     rawStreamedText |-> <<>>, tasks |-> <<>>, isProcessingFile |-> FALSE,
     processingMessage |-> "", uploads |-> <<>>]

\* The state of a DraftingTool after its first render, lines 393-414.
MountTool == [ToolUnmounted EXCEPT !.mounted = TRUE]

\* The render of the tool throws: AnalysisCard calls content.replace (line
\* 637) on each of the five members of an analysis without error that the
\* review mode shows (lines 729-740).
ToolThrows(t) ==
    /\ t.mounted
    /\ t.mode = "review"
    /\ ~t.isLoading
    /\ t.analysis.present
    /\ ~Truthy(Member(t.analysis.obj, "error"))
    /\ \E k \in CardKeys : Member(t.analysis.obj, k) = Absent

\* handleGenerate up to its await, lines 424-427; result is what generateDraft
\* will resolve to.
GenerateStarted(t, result) ==
    IF Blank(t.request) THEN t
    ELSE [t EXCEPT !.isLoading = TRUE, !.draft = "",
                   !.tasks = Append(@, Task("generate", t.request, result, <<>>))]

\* handleGenerate after its await, lines 428-429, for the k-th request.
GenerateDone(t, k) ==
    [t EXCEPT !.draft = t.tasks[k].result, !.isLoading = FALSE,
              !.tasks = RemoveAt(@, k)]

\* handleReview up to the first chunk, lines 433-440; stream is what
\* reviewDocumentStream will yield.
ReviewStarted(t, stream) ==
    IF Blank(t.uploadedText) THEN t
    ELSE [t EXCEPT !.isLoading = TRUE, !.analysis = NoAnalysis,
                   !.analysedText = "", !.rawStreamedText = <<>>,
                   !.tasks = Append(@, Task("review", t.uploadedText, "", stream))]

\* ChunkTaken showing the last chunk alone.
ChunkTakenAlone(t, k) ==
    LET fullResponse == t.tasks[k].fullResponse \o Head(t.tasks[k].rest) IN
    [t EXCEPT !.rawStreamedText = Head(t.tasks[k].rest),
              !.tasks[k] = [@ EXCEPT !.fullResponse = fullResponse, !.rest = Tail(@)]]

\* One turn of the for await loop of handleReview (lines 441-444) or of
\* handleSendMessage (lines 491-494), for the k-th request.
ChunkTaken(t, k) ==
    LET fullResponse == t.tasks[k].fullResponse \o Head(t.tasks[k].rest) IN
    [t EXCEPT !.rawStreamedText = fullResponse,
              !.tasks[k] = [@ EXCEPT !.fullResponse = fullResponse, !.rest = Tail(@)]]

\* handleReview once the stream has ended, lines 446-468, for the k-th
\* request; analysedText records the text the analysis was made for.
ReviewDone(t, k) ==
    [t EXCEPT !.analysis = Reviewed(t.tasks[k].fullResponse),
              !.analysedText = t.tasks[k].input,
              !.isLoading = FALSE, !.tasks = RemoveAt(@, k)]

\* SendStarted without the test of isLoading.
SendStartedUnguarded(t, stream) ==
    IF Blank(t.userMessage) THEN t
    ELSE [t EXCEPT !.chatHistory =
                       Append(@, [role |-> "user", content |-> <<Prose(t.userMessage)>>]),
                   !.userMessage = "", !.isLoading = TRUE,
                   !.rawStreamedText = <<>>,
                   !.tasks = Append(@, Task("chat", t.userMessage, "", stream))]

\* handleSendMessage up to the first chunk, lines 472-490; stream is what
\* getSeniorCounselChatAdviceStream will yield.
SendStarted(t, stream) ==
    IF Blank(t.userMessage) \/ t.isLoading THEN t
    ELSE [t EXCEPT !.chatHistory =
                       Append(@, [role |-> "user", content |-> <<Prose(t.userMessage)>>]),
                   !.userMessage = "", !.isLoading = TRUE,
                   !.rawStreamedText = <<>>,
                   !.tasks = Append(@, Task("chat", t.userMessage, "", stream))]

\* SendDone putting no message in the chat.
SendDoneSilent(t, k) ==
    [t EXCEPT !.isLoading = FALSE, !.rawStreamedText = <<>>,
              !.tasks = RemoveAt(@, k)]

\* handleSendMessage once the stream has ended, lines 496-504, for the k-th
\* request.  The generator catches what the gateway throws, so the catch of
\* lines 498-500 has nothing to catch.
SendDone(t, k) ==
    [t EXCEPT !.chatHistory =
                  Append(@, [role |-> "model", content |-> t.tasks[k].fullResponse]),
              !.isLoading = FALSE, !.rawStreamedText = <<>>,
              !.tasks = RemoveAt(@, k)]

\* handleFileChange up to its first await, lines 508-596; an unsupported type
\* throws before any await and the handler runs to its end.  The stage of an
\* upload is the await it is suspended at: "opening" (a PDF, lines 540-541),
\* "reading" (the bytes of a .docx file, line 587), "converting" (the text of
\* a .txt or .docx file, the OCR of an image, or the text layers of a PDF),
\* "scanning" (the OCR of a scanned PDF, lines 555-580),
\* "terminating" (worker.terminate() of an image, line 537).
UploadStarted(t, file) ==
    LET reset == [t EXCEPT !.uploadedText = "", !.analysis = NoAnalysis,
                           !.analysedText = ""]
    IN  IF file.kind = "other"
        THEN [reset EXCEPT !.processingMessage = ErrorMessage(file),
                           !.isProcessingFile = FALSE]
        ELSE [reset EXCEPT !.processingMessage = ProgressMessage(file),
                           !.isProcessingFile = TRUE,
                           !.uploads = Append(@, [file |-> file,
                                                  stage |-> IF file.kind = "pdf"
                                                            THEN "opening"
                                                            ELSE IF file.kind = "docx"
                                                            THEN "reading"
                                                            ELSE "converting"])]

\* handleFileChange resumes for the k-th upload: the promise it awaits has
\* settled, fulfilled or rejected.
UploadResumed(t, k, fulfilled) ==
    LET file == t.uploads[k].file
        stage == t.uploads[k].stage
        done == [t EXCEPT !.isProcessingFile = FALSE, !.uploads = RemoveAt(@, k)]
    IN  IF ~fulfilled
        THEN [done EXCEPT !.processingMessage = ErrorMessage(file)]
        ELSE IF stage = "terminating"
        THEN [done EXCEPT !.processingMessage = ProcessedMessage]
        ELSE IF stage = "opening"
        THEN [t EXCEPT !.processingMessage = "Extracting text layers from PDF...",
                       !.uploads[k] = [@ EXCEPT !.stage = "converting"]]
        ELSE IF stage = "reading"
        THEN [t EXCEPT !.uploads[k] = [@ EXCEPT !.stage = "converting"]]
        ELSE IF file.kind = "image"
        THEN [t EXCEPT !.uploadedText = file.text,
                       !.uploads[k] = [@ EXCEPT !.stage = "terminating"]]
        ELSE IF file.kind = "pdf" /\ stage = "converting" /\ Scanned(file)
        THEN [t EXCEPT !.processingMessage = "Scanned PDF detected. Preparing OCR engine...",
                       !.uploads[k] = [@ EXCEPT !.stage = "scanning"]]
        ELSE [done EXCEPT !.uploadedText = file.text,
                          !.processingMessage = ProcessedMessage]

\* The logger handed to Tesseract.createWorker is called with report m while
\* the k-th upload is at its OCR, lines 524-533 and 556-564.
LoggerCalled(t, k, m) ==
    [t EXCEPT !.processingMessage = LoggerMessage(t.uploads[k].file, m)]

----
\* Case repository: handleSaveCase (App.tsx) and the setter of useLocalStorage.

\* What the updater function passed to setCases is applied to.  The hook is
\* not among the sources: mode "state" applies it to the value React holds (a
\* functional setState), mode "closure" to the value the hook captured at the
\* last render.
UpdaterModes == {"state", "closure"}

UpdaterBase(closureCases, stateCases, mode) ==
    IF mode = "state" THEN stateCases ELSE closureCases

\* UpsertResult putting a new case first instead of last.
UpsertResultPrepend(closureCases, stateCases, mode, caseData) ==
    LET existingIndex == FindIndex(closureCases, caseData.id) IN
    IF existingIndex > 0
    THEN [closureCases EXCEPT ![existingIndex] = caseData]
    ELSE <<caseData>> \o UpdaterBase(closureCases, stateCases, mode)

\* UpsertResult keeping nothing but the saved case when it replaces.
UpsertResultDropOthers(closureCases, stateCases, mode, caseData) ==
    LET existingIndex == FindIndex(closureCases, caseData.id) IN
    IF existingIndex > 0
    THEN <<caseData>>
    ELSE Append(UpdaterBase(closureCases, stateCases, mode), caseData)

\* The collection handleSaveCase(caseData) sets: lines 44-51.  closureCases is
\* the `cases` the callback captured, stateCases the value React holds.
UpsertResult(closureCases, stateCases, mode, caseData) ==
    LET existingIndex == FindIndex(closureCases, caseData.id) IN
    IF existingIndex > 0
    THEN [closureCases EXCEPT ![existingIndex] = caseData]
    ELSE Append(UpdaterBase(closureCases, stateCases, mode), caseData)

\* The branch handleSaveCase takes.
SaveBranch(closureCases, caseData) ==
    IF FindIndex(closureCases, caseData.id) > 0 THEN "save:replace" ELSE "save:append"

\* A required text input on submit: the browser lets the form submit only
\* once the input holds text, so an empty or missing value has been typed over.
Required(v, typed) == IF Truthy(v) THEN v ELSE typed

\* The cases CaseForm can pass to onSave: an edited case keeps its identifier
\* and any field the user leaves alone; a new case has a fresh uuid.
FormResults(existingCase, cs) ==
    IF existingCase # NoCase
    THEN {[existingCase EXCEPT
              !.status = st, !.nextDate = d,
              !.title = Required(existingCase.title, "Smith"),
              !.caseNumber = Required(existingCase.caseNumber, "12"),
              !.courtName = Required(existingCase.courtName, "High")] :
            st \in FormStatuses \cup {existingCase.status},
            d \in FormDates \cup {existingCase.nextDate}}
    ELSE {MkCase(i, st, d) :
            i \in FormIds \ {cs[k].id : k \in 1..Len(cs)},
            st \in FormStatuses, d \in FormDates}

----
\* Import (DataManagementView.tsx, reader.onload of handleFileChange).

ParseErrorAlert == "An error occurred during import: Unexpected token"

FormatErrorAlert ==
    "An error occurred during import: Invalid file format. The file does not appear to be a valid case export."

ImportedAlert == "Data imported successfully!"

\* ImportRejected without the test of the first element's id.
ImportRejectedNoIdCheck(f) == ParseThrows(f) \/ ~IsArray(f)

\* Lines 41-46: the import is rejected before the confirmation.
ImportRejected(f) ==
    \/ ParseThrows(f)
    \/ ~IsArray(f)
    \/ (Len(f.elems) > 0 /\ ~Truthy(ParseItems(f)[1].id))

\* ImportResult replacing the collection whatever the answer.
ImportResultNoConfirm(cs, f, answer) ==
    IF ~ImportRejected(f) THEN ParseItems(f) ELSE cs

\* Lines 48-55: the collection after the handler; answer is what
\* window.confirm returns.
ImportResult(cs, f, answer) ==
    IF ~ImportRejected(f) /\ answer THEN ParseItems(f) ELSE cs

\* The alert the handler shows ("" when none).
ImportAlert(f, answer) ==
    IF ParseThrows(f) THEN ParseErrorAlert
    ELSE IF ImportRejected(f) THEN FormatErrorAlert
    ELSE IF answer THEN ImportedAlert
    ELSE ""

\* Whether window.confirm is reached, and its answer.
ImportConfirm(f, answer) ==
    IF ImportRejected(f) THEN "none"
    ELSE IF answer THEN "accepted" ELSE "declined"

\* Elements of the import files tried.
ElemA == MkCase("a", "Pending", "2024-06-01")

ElemA2 == MkCase("a", "Decided", "")

ElemB == MkCase("b", "Pending", "2024-06-02")

\* No id member.
ElemNoId == MkCase(Absent, "Pending", "2024-06-01")

\* A status outside the enumeration of types.ts.
ElemClosed == MkCase("b", "Closed", "")

\* A nextDate that Date cannot parse.
ElemBadDate == MkCase("b", "Pending", "not-a-date")

\* A nextDate that is a full ISO timestamp.
ElemTimestamp == MkCase("a", "Pending", "2024-06-01T10:00:00Z")

\* No title member.
ElemNoTitle == [MkCase("b", "Decided", "") EXCEPT !.title = Absent]

\* Text that is not JSON.
GarbageFile == [kind |-> "garbage", elems |-> <<>>]

\* A single case object, not wrapped in an array.
ObjectFile == [kind |-> "object", elems |-> <<StringifyCase(ElemA)>>]

\* The files the user can pick that the application did not just export.
ImportFiles ==
    {GarbageFile, ObjectFile}
        \cup {Stringify(cs) : cs \in
                { <<>>, <<ElemA, ElemB>>, <<ElemA, ElemA2>>,
                  <<ElemB, ElemNoId>>, <<ElemNoId, ElemA>>, <<ElemClosed>>,
                  <<ElemA, ElemBadDate>>, <<ElemA, ElemTimestamp>>,
                  <<ElemA, ElemNoTitle>> }}

----
\* State machine.  Every handler runs to completion and React renders App
\* again before the next event is dispatched, so the closures of the next
\* handler hold the collection the last one set.

SavedIds == FormIds \cup {Absent}

NoneSaved == [i \in SavedIds |-> NoCase]

Init ==
    /\ cases = <<>>
    /\ seen = <<>>
    /\ persistOk = TRUE
    /\ currentView = "calendar"
    /\ selectedCase = NoCase
    /\ formCase = NoCase
    /\ initialSearchFilter = "All"
    /\ exportFile = NoFile
    /\ exported = <<>>
    /\ alertMsg = ""
    /\ confirmResult = "none"
    /\ crashed = FALSE
    /\ lastOp = "other"
    /\ saved = NoneSaved
    /\ search = SearchUnmounted
    /\ form = FormUnmounted
    /\ tool = ToolUnmounted
    /\ apiKey = TRUE
    /\ reads = <<>>

\* SetCases giving up the new value when the write to the store fails.
SetCasesRollback(newCases) ==
    /\ persistOk' \in BOOLEAN
    /\ cases' = IF persistOk' THEN newCases ELSE cases

\* setCases(newCases): the hook stores the value and writes it through to the
\* store; the write may fail, which leaves the value in memory as set.
SetCases(newCases) ==
    /\ cases' = newCases
    /\ persistOk' \in BOOLEAN

\* The render of App that follows: the closures capture the collection,
\* casesByDate is recomputed, and the view on screen is rendered; either may
\* throw.
Render ==
    /\ seen' = cases'
    /\ crashed' = \/ IndexThrows(cases')
                  \/ /\ currentView' = "search"
                     /\ SearchThrows(cases', search'.searchTerm)

\* What the handler showed: its alert, its confirmation, and its name.
Shown(alert, confirm, op) ==
    /\ alertMsg' = alert
    /\ confirmResult' = confirm
    /\ lastOp' = op

\* The body of handleSaveCase, lines 44-53.
SaveCase(caseData) ==
    /\ \E mode \in UpdaterModes :
          SetCases(UpsertResult(seen, cases, mode, caseData))
    /\ selectedCase' = NoCase
    /\ currentView' = "calendar"
    /\ Shown("", "none", SaveBranch(seen, caseData))
    /\ UNCHANGED <<initialSearchFilter>>

\* The CaseForm after a handler that leaves view `before` for view `after`
\* with existingCase as the new selectedCase: the form is mounted (and its
\* caseData initialised, lines 142-158) only when the view becomes add_case;
\* a form that stays on screen keeps the state it has.
FormAfter(before, after, existingCase, shown) ==
    IF after # "add_case" THEN NoCase
    ELSE IF before = "add_case" THEN shown
    ELSE existingCase

HandleShowCases(status) ==
    /\ ~crashed
    /\ currentView = "calendar"
    /\ initialSearchFilter' = status
    /\ currentView' = "search"
    /\ formCase' = FormAfter(currentView, "search", selectedCase, formCase)
    /\ search' = SearchAfter(currentView, "search", status, search)
    /\ Shown("", "none", "other")
    /\ UNCHANGED <<exportFile, exported>>
    /\ UNCHANGED <<cases, persistOk, selectedCase, saved>>
    /\ UNCHANGED <<form, tool, apiKey, reads>>
    /\ Render

HandleSaveCase(caseData) ==
    /\ ~crashed
    /\ currentView = "add_case"
    /\ caseData \in FormResults(formCase, cases)
    /\ FindIndex(cases, caseData.id) = 0 => Len(cases) < MaxCases
    /\ SaveCase(caseData)
    /\ formCase' = FormAfter(currentView, "calendar", NoCase, formCase)
    /\ search' = SearchAfter(currentView, "calendar", initialSearchFilter, search)
    /\ UNCHANGED <<exportFile, exported>>
    /\ UNCHANGED saved
    /\ UNCHANGED <<form, tool, apiKey, reads>>
    /\ Render

\* HandleEditCase opening the form without selecting the case.
HandleEditCaseNoSelect(caseData) ==
    /\ ~crashed
    /\ \/ currentView = "calendar" /\ OnCalendar(caseData)
       \/ /\ currentView = "search"
          /\ caseData \in Range(FilteredCases(cases, search.searchTerm,
                                              search.filterStatus))
    /\ caseData \in Range(cases)
    /\ selectedCase' = NoCase
    /\ currentView' = "add_case"
    /\ formCase' = FormAfter(currentView, "add_case", caseData, formCase)
    /\ search' = SearchAfter(currentView, "add_case", initialSearchFilter, search)
    /\ Shown("", "none", "other")
    /\ UNCHANGED <<exportFile, exported>>
    /\ UNCHANGED <<cases, persistOk, initialSearchFilter, saved>>
    /\ UNCHANGED <<form, tool, apiKey, reads>>
    /\ Render

\* handleEditCase, lines 56-59.  View/Edit is offered for the cases of the
\* calendar and, in the search view, for the rows of filteredCases
\* (SearchView.tsx, line 89).
HandleEditCase(caseData) ==
    /\ ~crashed
    /\ \/ currentView = "calendar" /\ OnCalendar(caseData)
       \/ /\ currentView = "search"
          /\ caseData \in Range(FilteredCases(cases, search.searchTerm,
                                              search.filterStatus))
    /\ caseData \in Range(cases)
    /\ selectedCase' = caseData
    /\ currentView' = "add_case"
    /\ formCase' = FormAfter(currentView, "add_case", caseData, formCase)
    /\ search' = SearchAfter(currentView, "add_case", initialSearchFilter, search)
    /\ Shown("", "none", "other")
    /\ UNCHANGED <<exportFile, exported>>
    /\ UNCHANGED <<cases, persistOk, initialSearchFilter, saved>>
    /\ UNCHANGED <<form, tool, apiKey, reads>>
    /\ Render

HandleAddNew ==
    /\ ~crashed
    /\ selectedCase' = NoCase
    /\ currentView' = "add_case"
    /\ formCase' = FormAfter(currentView, "add_case", NoCase, formCase)
    /\ search' = SearchAfter(currentView, "add_case", initialSearchFilter, search)
    /\ Shown("", "none", "other")
    /\ UNCHANGED <<exportFile, exported>>
    /\ UNCHANGED <<cases, persistOk, initialSearchFilter, saved>>
    /\ UNCHANGED <<form, tool, apiKey, reads>>
    /\ Render

HandleNavClick(view) ==
    /\ ~crashed
    /\ selectedCase' = NoCase
    /\ IF view = "search"
       THEN initialSearchFilter' = "All" /\ currentView' = "search"
       ELSE currentView' = view /\ UNCHANGED initialSearchFilter
    /\ formCase' = FormAfter(currentView, view, NoCase, formCase)
    /\ search' = SearchAfter(currentView, view, initialSearchFilter', search)
    /\ Shown("", "none", "other")
    /\ UNCHANGED <<exportFile, exported>>
    /\ UNCHANGED <<cases, persistOk, saved>>
    /\ UNCHANGED <<form, tool, apiKey, reads>>
    /\ Render

\* CancelForm leaving the selected case selected.
CancelFormKeepSelected ==
    /\ ~crashed
    /\ currentView = "add_case"
    /\ selectedCase' = selectedCase
    /\ currentView' = "calendar"
    /\ formCase' = FormAfter(currentView, "calendar", NoCase, formCase)
    /\ search' = SearchAfter(currentView, "calendar", initialSearchFilter, search)
    /\ Shown("", "none", "cancel")
    /\ UNCHANGED <<exportFile, exported>>
    /\ UNCHANGED <<cases, persistOk, initialSearchFilter, saved>>
    /\ UNCHANGED <<form, tool, apiKey, reads>>
    /\ Render

\* onCancel of the case form.
CancelForm ==
    /\ ~crashed
    /\ currentView = "add_case"
    /\ selectedCase' = NoCase
    /\ currentView' = "calendar"
    /\ formCase' = FormAfter(currentView, "calendar", NoCase, formCase)
    /\ search' = SearchAfter(currentView, "calendar", initialSearchFilter, search)
    /\ Shown("", "none", "cancel")
    /\ UNCHANGED <<exportFile, exported>>
    /\ UNCHANGED <<cases, persistOk, initialSearchFilter, saved>>
    /\ UNCHANGED <<form, tool, apiKey, reads>>
    /\ Render

\* onChange of the search box.
SetSearchTerm(term) ==
    /\ ~crashed
    /\ currentView = "search"
    /\ search' = [search EXCEPT !.searchTerm = term]
    /\ Shown("", "none", "other")
    /\ UNCHANGED <<exportFile, exported>>
    /\ UNCHANGED <<cases, persistOk, currentView, selectedCase, formCase,
                   initialSearchFilter, saved>>
    /\ UNCHANGED <<form, tool, apiKey, reads>>
    /\ Render

\* onChange of the status <select> of the search view.
SetFilterStatus(status) ==
    /\ ~crashed
    /\ currentView = "search"
    /\ search' = [search EXCEPT !.filterStatus = status]
    /\ Shown("", "none", "other")
    /\ UNCHANGED <<exportFile, exported>>
    /\ UNCHANGED <<cases, persistOk, currentView, selectedCase, formCase,
                   initialSearchFilter, saved>>
    /\ UNCHANGED <<form, tool, apiKey, reads>>
    /\ Render

\* The export button is disabled while the collection is empty.
HandleExport ==
    /\ ~crashed
    /\ currentView = "data"
    /\ Len(cases) > 0
    /\ exportFile' = Stringify(cases)
    /\ exported' = cases
    /\ Shown("", "none", "export")
    /\ UNCHANGED <<cases, seen, persistOk, currentView, selectedCase, formCase,
                   initialSearchFilter, crashed, saved, search, form, tool,
                   apiKey, reads>>

\* The files the user can pick: those of ImportFiles and the file the last
\* export wrote.
PickableFiles == ImportFiles \cup ({exportFile} \ {NoFile})

\* handleFileChange of DataManagementView, lines 30-34 and 69: file f is
\* picked and a FileReader starts to read it.  The handler sets no state, so
\* no render follows.
HandleFileChange(f) ==
    /\ ~crashed
    /\ currentView = "data"
    /\ Len(reads) < MaxReads
    /\ reads' = Append(reads, f)
    /\ Shown("", "none", "other")
    /\ UNCHANGED <<cases, seen, persistOk, currentView, selectedCase, formCase,
                   initialSearchFilter, exportFile, exported, crashed, saved,
                   search, form, tool, apiKey>>

\* reader.onload, lines 35-65: the load event of the k-th pending reader
\* brings the text of its file; answer is what the user answers if asked to
\* confirm.  The callback runs whatever the view is by then, and also after a
\* render threw: the user is still asked and alerted and the setter of the
\* hook is still called, but App is unmounted and the collection it held is
\* not replaced.
ReaderLoads(k, answer) ==
    /\ k \in 1..Len(reads)
    /\ reads' = RemoveAt(reads, k)
    /\ UNCHANGED <<currentView, selectedCase, formCase, initialSearchFilter,
                   exportFile, exported, saved, search, form, tool, apiKey>>
    /\ IF ~ImportRejected(reads[k]) /\ answer
       THEN IF crashed
            THEN /\ persistOk' \in BOOLEAN
                 /\ UNCHANGED <<cases, seen, crashed>>
            ELSE SetCases(ImportResult(cases, reads[k], answer)) /\ Render
       ELSE /\ cases' = ImportResult(cases, reads[k], answer)
            /\ UNCHANGED <<seen, persistOk, crashed>>
    /\ Shown(ImportAlert(reads[k], answer), ImportConfirm(reads[k], answer),
             "import")

\* reader.onerror, lines 66-68: the file of the k-th pending reader could not
\* be read.
ReaderFails(k) ==
    /\ k \in 1..Len(reads)
    /\ reads' = RemoveAt(reads, k)
    /\ Shown("Failed to read the file.", "none", "import:error")
    /\ UNCHANGED <<cases, seen, persistOk, currentView, selectedCase, formCase,
                   initialSearchFilter, exportFile, exported, crashed, saved,
                   search, form, tool, apiKey>>

\* What the user does next, short of exporting the collection or picking a
\* file to import.
UserEvent ==
    \/ \E status \in Filters : HandleShowCases(status)
    \/ \E caseData \in FormResults(formCase, cases) : HandleSaveCase(caseData)
    \/ \E i \in 1..Len(cases) : HandleEditCase(cases[i])
    \/ HandleAddNew
    \/ \E view \in Views \ {"add_case"} : HandleNavClick(view)
    \/ CancelForm
    \/ \E term \in SearchTerms : SetSearchTerm(term)
    \/ \E status \in Filters : SetFilterStatus(status)

\* The load or error event of a FileReader comes at any time after the pick.
Next ==
    \/ UserEvent
    \/ HandleExport
    \/ \E f \in PickableFiles : HandleFileChange(f)
    \/ \E k \in 1..Len(reads), answer \in BOOLEAN : ReaderLoads(k, answer)
    \/ \E k \in 1..Len(reads) : ReaderFails(k)

Spec == Init /\ [][Next]_vars

\* A session in which no file is exported or imported.  The collection the hook reads
\* from the store when App mounts (line 13) is one an earlier session left
\* there: empty, or what a file of ImportFiles brought in.
StoredCollections ==
    { <<>>, <<ElemA, ElemB>>, <<ElemA, ElemA2>>, <<ElemB, ElemNoId>>,
      <<ElemClosed>>, <<ElemA, ElemBadDate>>, <<ElemA, ElemTimestamp>>,
      <<ElemA, ElemNoTitle>> }

InitSession ==
    /\ cases \in StoredCollections
    /\ seen = cases
    /\ persistOk = TRUE
    /\ currentView = "calendar"
    /\ selectedCase = NoCase
    /\ formCase = NoCase
    /\ initialSearchFilter = "All"
    /\ exportFile = NoFile
    /\ exported = <<>>
    /\ alertMsg = ""
    /\ confirmResult = "none"
    /\ crashed = IndexThrows(cases)
    /\ lastOp = "other"
    /\ saved = NoneSaved
    /\ search = SearchUnmounted
    /\ form = FormUnmounted
    /\ tool = ToolUnmounted
    /\ apiKey = TRUE
    /\ reads = <<>>

SpecSession == InitSession /\ [][UserEvent]_vars

\* The specifications below take the steps of Next with fewer inputs; the
\* search view is left as it opens.
PendingSaves ==
    \E caseData \in {c \in FormResults(formCase, cases) :
                         c.status = "Pending" /\ Truthy(c.nextDate)} :
        HandleSaveCase(caseData)

FormEvent ==
    \/ \E i \in 1..Len(cases) : HandleEditCase(cases[i])
    \/ HandleAddNew
    \/ \E view \in Views \ {"add_case"} : HandleNavClick(view)
    \/ CancelForm

ReaderEvent ==
    \/ \E k \in 1..Len(reads), answer \in BOOLEAN : ReaderLoads(k, answer)
    \/ \E k \in 1..Len(reads) : ReaderFails(k)

\* Imports of every file of ImportFiles; the form saves Pending cases with a
\* next date, and nothing is exported.
NextImport ==
    \/ PendingSaves
    \/ FormEvent
    \/ \E status \in Filters : HandleShowCases(status)
    \/ \E f \in ImportFiles : HandleFileChange(f)
    \/ ReaderEvent

SpecImport == Init /\ [][NextImport]_vars

\* Imports of the files the import must refuse, of the empty array and of an
\* array of two cases; the form saves what it can save, and nothing is
\* exported.
ReplaceFiles ==
    {GarbageFile, ObjectFile, Stringify(<<>>), Stringify(<<ElemB, ElemA2>>),
     Stringify(<<ElemNoId, ElemA>>)}

NextReplace ==
    \/ \E caseData \in FormResults(formCase, cases) : HandleSaveCase(caseData)
    \/ FormEvent
    \/ \E f \in ReplaceFiles : HandleFileChange(f)
    \/ ReaderEvent

SpecReplace == Init /\ [][NextReplace]_vars

\* Exports, and imports of the exported file, of an array of two cases, one
\* of them without next date, and of an array with a case whose next date is
\* no date.  The form saves new Pending cases with a next date.
RoundTripFiles ==
    ({exportFile} \ {NoFile})
        \cup {Stringify(<<ElemB, ElemA2>>), Stringify(<<ElemA, ElemBadDate>>)}

NextRoundTrip ==
    \/ PendingSaves
    \/ HandleAddNew
    \/ \E view \in Views \ {"add_case"} : HandleNavClick(view)
    \/ CancelForm
    \/ HandleExport
    \/ \E f \in RoundTripFiles : HandleFileChange(f)
    \/ ReaderEvent

SpecRoundTrip == Init /\ [][NextRoundTrip]_vars

----
\* handleSaveCase as a callback: SpecSaves starts from a collection with unique
\* identifiers and calls the callback any number of times; React renders App
\* again (and so hands out a callback that captured the new collection) at
\* any point between two calls, or not at all.

\* The cases a form passes.
SaveCases ==
    {MkCase(i, st, d) : i \in FormIds, st \in FormStatuses, d \in FormDates}

UniqueIds(cs) == \A i, j \in 1..Len(cs) : cs[i].id = cs[j].id => i = j

InitSaves ==
    /\ cases \in {cs \in SeqsUpTo(SaveCases, MaxInit) : UniqueIds(cs)}
    /\ seen = cases
    /\ persistOk = TRUE
    /\ currentView = "add_case"
    /\ selectedCase = NoCase
    /\ formCase = NoCase
    /\ initialSearchFilter = "All"
    /\ exportFile = NoFile
    /\ exported = <<>>
    /\ alertMsg = ""
    /\ confirmResult = "none"
    /\ crashed = FALSE
    /\ lastOp = "other"
    /\ saved = NoneSaved
    /\ search = SearchUnmounted
    /\ form = FormUnmounted
    /\ tool = ToolUnmounted
    /\ apiKey = TRUE
    /\ reads = <<>>

\* One call of the callback the form holds; no render follows it here.
SaveCall(caseData) ==
    /\ Len(cases) < MaxCases
    /\ Len(seen) < MaxCases
    /\ SaveCase(caseData)
    /\ saved' = [saved EXCEPT ![caseData.id] = caseData]
    /\ UNCHANGED <<seen, formCase, crashed, exportFile, exported, search, form,
                   tool, apiKey, reads>>

\* React renders App with the collection it holds.
Rerender ==
    /\ seen # cases
    /\ seen' = cases
    /\ crashed' = IndexThrows(cases)
    /\ UNCHANGED <<cases, persistOk, currentView, selectedCase, formCase,
                   initialSearchFilter, exportFile, exported, alertMsg,
                   confirmResult, lastOp, saved, search, form, tool, apiKey, reads>>

NextSaves ==
    \/ \E caseData \in SaveCases : SaveCall(caseData)
    \/ Rerender

SpecSaves == InitSaves /\ [][NextSaves]_vars

----
\* SearchView on its own: SpecSearch starts with the search view on screen over
\* a collection the application can hold, and lets the user type a query or
\* pick a status filter any number of times.

\* Cases as the form saves them and as an import brings them in.
SearchA == MkCase("a", "Pending", "2024-06-01")

SearchB == [MkCase("b", "Decided", "2024-06-02") EXCEPT !.title = "Doe"]

\* No next date; the only case whose caseType holds text.
SearchC ==
    [MkCase("c", "Pending", "") EXCEPT !.title = "Doe", !.caseType = "Bail"]

\* Imported without the optional members caseType and representing.
SearchD ==
    [MkCase("d", "Pending", "2024-06-02") EXCEPT
        !.title = "Doe", !.caseType = Absent, !.representing = Absent]

SearchCases == {SearchA, SearchB, SearchC, SearchD, ElemNoTitle}

InitSearch ==
    /\ cases \in SeqsUpTo(SearchCases, MaxSearch)
    /\ seen = cases
    /\ persistOk = TRUE
    /\ currentView = "search"
    /\ selectedCase = NoCase
    /\ formCase = NoCase
    /\ initialSearchFilter \in Filters
    /\ exportFile = NoFile
    /\ exported = <<>>
    /\ alertMsg = ""
    /\ confirmResult = "none"
    /\ crashed = (IndexThrows(cases) \/ SearchThrows(cases, ""))
    /\ lastOp = "other"
    /\ saved = NoneSaved
    /\ search = SearchAfter("calendar", "search", initialSearchFilter, search)
    /\ form = FormUnmounted
    /\ tool = ToolUnmounted
    /\ apiKey = TRUE
    /\ reads = <<>>

NextSearch ==
    \/ \E term \in SearchTerms : SetSearchTerm(term)
    \/ \E status \in Filters : SetFilterStatus(status)

SpecSearch == InitSearch /\ [][NextSearch]_vars

----
\* CaseForm on its own.  SpecForm starts with the form on screen, for a new
\* case or for an existing one, with or without an API key, and lets the user
\* type, paste, add to the history and take or reject suggestions while the
\* debounce timer fires and predictions arrive.  SpecPredict starts with the
\* form of a new case and follows the suggestions for more diary texts.

\* The variables of App, none of which a form handler touches.
appVars ==
    <<cases, seen, persistOk, currentView, selectedCase, formCase,
      initialSearchFilter, exportFile, exported, alertMsg, confirmResult, saved,
      search, reads>>

InitPredict ==
    /\ cases = <<>>
    /\ seen = <<>>
    /\ persistOk = TRUE
    /\ currentView = "add_case"
    /\ selectedCase = NoCase
    /\ formCase = NoCase
    /\ initialSearchFilter = "All"
    /\ exportFile = NoFile
    /\ exported = <<>>
    /\ alertMsg = ""
    /\ confirmResult = "none"
    /\ crashed = FALSE
    /\ lastOp = "other"
    /\ saved = NoneSaved
    /\ search = SearchUnmounted
    /\ form = MountForm(NoCase)
    /\ tool = ToolUnmounted
    /\ apiKey \in BOOLEAN
    /\ reads = <<>>

InitForm ==
    /\ cases = <<>>
    /\ seen = <<>>
    /\ persistOk = TRUE
    /\ currentView = "add_case"
    /\ selectedCase = NoCase
    /\ formCase = NoCase
    /\ initialSearchFilter = "All"
    /\ exportFile = NoFile
    /\ exported = <<>>
    /\ alertMsg = ""
    /\ confirmResult = "none"
    /\ crashed = FALSE
    /\ lastOp = "other"
    /\ saved = NoneSaved
    /\ search = SearchUnmounted
    /\ form \in {MountForm(c) : c \in ExistingCases \cup {NoCase}}
    /\ tool = ToolUnmounted
    /\ apiKey \in BOOLEAN
    /\ reads = <<>>

\* A form handler ran: op is "addHistory" for handleAddHistory, "ai:predict"
\* for the end of a prediction, "other" for the rest.
FormStep(newForm, op) ==
    /\ form.mounted
    /\ form' = newForm
    /\ lastOp' = op
    /\ UNCHANGED <<appVars, crashed, tool, apiKey>>

\* onChange of the diary textarea or of the next-date input.
HandleChange(name, value) ==
    /\ name \in {"diaryNotes", "nextDate"}
    /\ FormStep(Changed(form, name, value), "other")

\* onPaste of the diary textarea: handlePredictStage.
HandlePredictStage(prediction) ==
    /\ Len(form.requests) < MaxFlights
    /\ prediction \in PredictNextStage(apiKey)
    /\ FormStep(PredictStarted(form, prediction), "other")

\* The debounce timer of lines 182-184 fires: handlePredictStage.
DebounceFires(prediction) ==
    /\ form.timer
    /\ Len(form.requests) < MaxFlights
    /\ prediction \in PredictNextStage(apiKey)
    /\ FormStep([PredictStarted(form, prediction) EXCEPT !.timer = FALSE], "other")

\* The promise of call k settles and handlePredictStage resumes.
PredictionArrives(k) ==
    /\ k \in 1..Len(form.requests)
    /\ FormStep(PredictArrived(form, k), "ai:predict")

\* The accept button of the suggestion, rendered by line 305.
ApplyPredictedStage ==
    /\ form.predictedStage # ""
    /\ ~form.isPredicting
    /\ FormStep(Applied(form), "other")

\* The reject button of the suggestion, line 309.
RejectSuggestion ==
    /\ form.predictedStage # ""
    /\ ~form.isPredicting
    /\ FormStep(Rejected(form), "other")

\* The Add to History button: rendered for an existing case (line 335),
\* disabled while the diary is the empty string (line 342).
HandleAddHistory ==
    /\ form.existing
    /\ form.caseData.diaryNotes # ""
    /\ Len(form.caseData.history) < MaxHistory
    /\ FormStep(AddedHistory(form), "addHistory")

NextForm ==
    \/ \E value \in HistoryNotes : HandleChange("diaryNotes", value)
    \/ HandleChange("nextDate", "2024-06-02")
    \/ \E prediction \in GatewayStages \cup {PredictFailed, ApiKeyMissing} :
          HandlePredictStage(prediction)
    \/ \E prediction \in GatewayStages \cup {PredictFailed, ApiKeyMissing} :
          DebounceFires(prediction)
    \/ \E k \in 1..MaxFlights : PredictionArrives(k)
    \/ ApplyPredictedStage
    \/ RejectSuggestion
    \/ HandleAddHistory

NextPredict ==
    \/ \E value \in FormNotes : HandleChange("diaryNotes", value)
    \/ \E prediction \in GatewayStages \cup {PredictFailed, ApiKeyMissing} :
          HandlePredictStage(prediction)
    \/ \E prediction \in GatewayStages \cup {PredictFailed, ApiKeyMissing} :
          DebounceFires(prediction)
    \/ \E k \in 1..MaxFlights : PredictionArrives(k)
    \/ ApplyPredictedStage
    \/ RejectSuggestion

SpecForm == InitForm /\ [][NextForm]_vars

SpecPredict == InitPredict /\ [][NextPredict]_vars

----
\* DraftingTool on its own: SpecTool starts with the tool on screen, with or
\* without an API key, before or after a text file was uploaded, and lets the
\* user change mode, type, generate, review and chat while the gateway answers.
\* SpecReview starts with the tool in its review mode and lets the user upload
\* files and review them while files are converted and the gateway answers.

Modes == {"create", "review", "strategy"}

\* The tool after notes.txt was uploaded and converted.
Uploaded ==
    [MountTool EXCEPT !.uploadedText = "Bail", !.processingMessage = ProcessedMessage]

InitTool ==
    /\ cases = <<MkCase("a", "Pending", "2024-06-01")>>
    /\ seen = cases
    /\ persistOk = TRUE
    /\ currentView = "drafting"
    /\ selectedCase = NoCase
    /\ formCase = NoCase
    /\ initialSearchFilter = "All"
    /\ exportFile = NoFile
    /\ exported = <<>>
    /\ alertMsg = ""
    /\ confirmResult = "none"
    /\ crashed = FALSE
    /\ lastOp = "other"
    /\ saved = NoneSaved
    /\ search = SearchUnmounted
    /\ form = FormUnmounted
    /\ tool \in {MountTool, Uploaded}
    /\ apiKey \in BOOLEAN
    /\ reads = <<>>

InitReview ==
    /\ cases = <<MkCase("a", "Pending", "2024-06-01")>>
    /\ seen = cases
    /\ persistOk = TRUE
    /\ currentView = "drafting"
    /\ selectedCase = NoCase
    /\ formCase = NoCase
    /\ initialSearchFilter = "All"
    /\ exportFile = NoFile
    /\ exported = <<>>
    /\ alertMsg = ""
    /\ confirmResult = "none"
    /\ crashed = FALSE
    /\ lastOp = "other"
    /\ saved = NoneSaved
    /\ search = SearchUnmounted
    /\ form = FormUnmounted
    /\ tool = [MountTool EXCEPT !.mode = "review"]
    /\ apiKey \in BOOLEAN
    /\ reads = <<>>

\* A handler of the tool ran and the tool is rendered again: op is
\* "ai:generate", "ai:review" or "ai:chat" when it is the end of that AI
\* operation, "upload" when a file was picked, "upload:end" when
\* handleFileChange has run to its end, "send" when the chat was submitted,
\* "other" otherwise.
ToolStep(newTool, op) ==
    /\ tool.mounted
    /\ ~crashed
    /\ tool' = newTool
    /\ crashed' = ToolThrows(newTool)
    /\ lastOp' = op
    /\ UNCHANGED <<appVars, form, apiKey>>

\* A mode tab, line 626.
SetMode(target) ==
    /\ target \in Modes
    /\ ToolStep([tool EXCEPT !.mode = target], "other")

\* The request textarea or a template button, lines 654 and 664.
SetRequest(value) ==
    /\ tool.mode = "create"
    /\ ToolStep([tool EXCEPT !.request = value], "other")

\* handleFileChange of DraftingTool: a file is picked with the file input of
\* the review mode, line 698.
HandleUpload(file) ==
    /\ tool.mode = "review"
    /\ Len(tool.uploads) < MaxUploads
    /\ ToolStep(UploadStarted(tool, file),
                IF file.kind = "other" THEN "upload:end" ELSE "upload")

\* The promise the k-th upload awaits settles.
UploadResumes(k, fulfilled) ==
    /\ k \in 1..Len(tool.uploads)
    /\ ToolStep(UploadResumed(tool, k, fulfilled),
                IF Len(UploadResumed(tool, k, fulfilled).uploads) < Len(tool.uploads)
                THEN "upload:end" ELSE "other")

\* Tesseract reports to the logger of the k-th upload.
LoggerReports(k, m) ==
    /\ k \in 1..Len(tool.uploads)
    /\ \/ tool.uploads[k].file.kind = "image" /\ tool.uploads[k].stage = "converting"
       \/ tool.uploads[k].stage = "scanning"
    /\ ToolStep(LoggerCalled(tool, k, m), "other")

\* The chat input, line 805.
SetUserMessage(value) ==
    /\ tool.mode = "strategy"
    /\ ToolStep([tool EXCEPT !.userMessage = value], "other")

\* The Generate button, lines 671-672.
HandleGenerate(result) ==
    /\ tool.mode = "create"
    /\ ~tool.isLoading
    /\ ~Blank(tool.request)
    /\ Len(tool.tasks) < MaxTasks
    /\ result \in GenerateDraft(apiKey)
    /\ ToolStep(GenerateStarted(tool, result), "other")

\* generateDraft resolves and handleGenerate resumes.
DraftArrives(k) ==
    /\ k \in 1..Len(tool.tasks)
    /\ tool.tasks[k].kind = "generate"
    /\ ToolStep(GenerateDone(tool, k), "ai:generate")

\* The Review button, line 717.
HandleReview(stream) ==
    /\ tool.mode = "review"
    /\ ~tool.isLoading
    /\ ~Blank(tool.uploadedText)
    /\ Len(tool.tasks) < MaxTasks
    /\ stream \in ReviewDocumentStream(apiKey)
    /\ ToolStep(ReviewStarted(tool, stream), "other")

\* The form of the chat is submitted, by its button or by Enter, lines
\* 802-816.
HandleSendMessage(stream) ==
    /\ tool.mode = "strategy"
    /\ Len(tool.chatHistory) < 2 * MaxChat
    /\ Len(tool.tasks) < MaxTasks
    /\ stream \in GetSeniorCounselChatAdviceStream(apiKey)
    /\ ToolStep(SendStarted(tool, stream), "send")

\* The stream of the k-th request yields its next chunk.
ChunkArrives(k) ==
    /\ k \in 1..Len(tool.tasks)
    /\ tool.tasks[k].kind \in {"review", "chat"}
    /\ tool.tasks[k].rest # <<>>
    /\ ToolStep(ChunkTaken(tool, k), "other")

\* The stream of a review ends.
ReviewEnds(k) ==
    /\ k \in 1..Len(tool.tasks)
    /\ tool.tasks[k].kind = "review"
    /\ tool.tasks[k].rest = <<>>
    /\ ToolStep(ReviewDone(tool, k), "ai:review")

\* The stream of a chat answer ends.
ChatEnds(k) ==
    /\ k \in 1..Len(tool.tasks)
    /\ tool.tasks[k].kind = "chat"
    /\ tool.tasks[k].rest = <<>>
    /\ ToolStep(SendDone(tool, k), "ai:chat")

NextTool ==
    \/ \E target \in Modes : SetMode(target)
    \/ \E value \in {"", "   ", "Bail"} : SetRequest(value)
    \/ \E value \in {"", "   ", "Bail"} : SetUserMessage(value)
    \/ \E result \in GatewayDrafts \cup {DraftFailed, ApiKeyMissing} : HandleGenerate(result)
    \/ \E k \in 1..MaxTasks : DraftArrives(k)
    \/ \E stream \in ReviewDocumentStream(TRUE) \cup ReviewDocumentStream(FALSE) :
          HandleReview(stream)
    \/ \E stream \in GetSeniorCounselChatAdviceStream(TRUE)
                     \cup GetSeniorCounselChatAdviceStream(FALSE) :
          HandleSendMessage(stream)
    \/ \E k \in 1..MaxTasks : ChunkArrives(k)
    \/ \E k \in 1..MaxTasks : ReviewEnds(k)
    \/ \E k \in 1..MaxTasks : ChatEnds(k)

NextReview ==
    \/ \E file \in Files : HandleUpload(file)
    \/ \E k \in 1..MaxUploads, fulfilled \in BOOLEAN : UploadResumes(k, fulfilled)
    \/ \E k \in 1..MaxUploads, m \in OcrReports : LoggerReports(k, m)
    \/ \E stream \in ReviewDocumentStream(TRUE) \cup ReviewDocumentStream(FALSE) :
          HandleReview(stream)
    \/ \E k \in 1..MaxTasks : ChunkArrives(k)
    \/ \E k \in 1..MaxTasks : ReviewEnds(k)

SpecTool == InitTool /\ [][NextTool]_vars

SpecReview == InitReview /\ [][NextReview]_vars

\* The steps of SpecReviewLive: the files picked are the text file, the image
\* and the video, and the logger reports the progress of the recognition.
NextReviewLive ==
    \/ \E file \in {f \in Files : f.kind \in {"text", "image", "other"}} :
          HandleUpload(file)
    \/ \E k \in 1..MaxUploads, fulfilled \in BOOLEAN : UploadResumes(k, fulfilled)
    \/ \E k \in 1..MaxUploads : LoggerReports(k, [status |-> "recognizing text", progress |-> 50])
    \/ \E stream \in ReviewDocumentStream(TRUE) \cup ReviewDocumentStream(FALSE) :
          HandleReview(stream)
    \/ \E k \in 1..MaxTasks : ChunkArrives(k)
    \/ \E k \in 1..MaxTasks : ReviewEnds(k)

\* The review with the scheduling of the event loop: a stream of the gateway
\* yields its chunks and ends, and the handler awaiting it is resumed.
SpecReviewLive ==
    /\ InitReview
    /\ [][NextReviewLive]_vars
    /\ WF_vars(\E k \in 1..MaxTasks : ChunkArrives(k))
    /\ WF_vars(\E k \in 1..MaxTasks : ReviewEnds(k))

----
\* Claims.

\* The positions of the collection that hold identifier id.
Holding(cs, id) == {i \in 1..Len(cs) : cs[i].id = id}

\* C1: after any sequence of saves from a collection with unique identifiers,
\* the collection holds exactly one entry for every identifier that was saved,
\* and that entry is the case passed by the most recent save of it; two saves
\* issued before the collection is read again are included.
C1_OneEntryPerSavedId ==
    \A id \in SavedIds :
        saved[id] # NoCase =>
            /\ Cardinality(Holding(cases, id)) = 1
            /\ \A i \in Holding(cases, id) : cases[i] = saved[id]

\* Witness of the double save C1 speaks of: the callback ran twice for the
\* same new identifier before a render.
C1_DoubleSaveReached ==
    /\ seen = <<>>
    /\ Len(cases) = 2
    /\ cases[1].id = cases[2].id

\* C2: a save of a case whose identifier is in the collection replaces that
\* entry in place (same length, every other entry as it was); a save of a case
\* whose identifier is not in the collection appends it as the last element.
C2_ReplaceInPlaceOrAppend ==
    [][lastOp' \in {"save:replace", "save:append"} =>
          \A caseData \in FormResults(formCase, cases) :
              HandleSaveCase(caseData) =>
                  IF Holding(cases, caseData.id) # {}
                  THEN /\ Len(cases') = Len(cases)
                       /\ \E i \in Holding(cases, caseData.id) :
                             /\ cases'[i] = caseData
                             /\ \A j \in 1..Len(cases) : j # i => cases'[j] = cases[j]
                  ELSE /\ Len(cases') = Len(cases) + 1
                       /\ cases'[Len(cases')] = caseData
                       /\ \A j \in 1..Len(cases) : cases'[j] = cases[j]]_vars

\* A save has replaced an entry of a collection of two.
C2_Witness == lastOp = "save:replace" /\ Len(cases) = 2 /\ ~crashed

\* C3: in every reachable state no two entries of the collection have the
\* same identifier.
C3_UniqueIdentifiers == UniqueIds(cases)

\* C4: the derived index holds, under any key, no case whose status is Decided
\* and no case whose nextDate is empty.
C4_IndexExcludes ==
    ~IndexThrows(cases) =>
        \A k \in DOMAIN CasesByDate(cases) :
            \A i \in 1..Len(CasesByDate(cases)[k]) :
                /\ CasesByDate(cases)[k][i].status # "Decided"
                /\ CasesByDate(cases)[k][i].nextDate \notin {"", Absent}

\* The collection holds a Decided case with a date and the index is not
\* empty.
C4_Witness ==
    /\ ~crashed
    /\ DOMAIN CasesByDate(cases) # {}
    /\ \E i \in 1..Len(cases) :
          cases[i].status = "Decided" /\ cases[i].nextDate = "2024-06-01"

\* The calendar date an ISO date or timestamp names ("none" for text that
\* names no date).
CalendarDate(s) ==
    IF s \in {"2024-06-01", "2024-06-01T10:00:00Z"} THEN "2024-06-01"
    ELSE IF s = "2024-06-02" THEN "2024-06-02"
    ELSE "none"

\* First half of C5: every Pending case with a non-empty nextDate is in the
\* derived index exactly once, under the key of its nextDate's calendar date.
C5_PendingDatedIndexed ==
    \A i \in 1..Len(cases) :
        (cases[i].status = "Pending" /\ cases[i].nextDate \notin {"", Absent}) =>
            /\ ~IndexThrows(cases)
            /\ CalendarDate(cases[i].nextDate) \in DOMAIN CasesByDate(cases)
            /\ \A k \in DOMAIN CasesByDate(cases) :
                  Cardinality({n \in 1..Len(CasesByDate(cases)[k]) :
                                 CasesByDate(cases)[k][n].id = cases[i].id})
                    = (IF k = CalendarDate(cases[i].nextDate) THEN 1 ELSE 0)

\* Second half of C5: once such a case is saved again as Decided, the index
\* derived from the new collection holds it under no key.
C5_DecidedLeavesIndex ==
    [][lastOp' \in {"save:replace", "save:append"} =>
          \A caseData \in FormResults(formCase, cases) :
              (caseData.status = "Decided" /\ HandleSaveCase(caseData)) =>
                  /\ ~IndexThrows(cases')
                  /\ \A k \in DOMAIN CasesByDate(cases') :
                        \A n \in 1..Len(CasesByDate(cases')[k]) :
                            CasesByDate(cases')[k][n].id # caseData.id]_vars

\* C5: every Pending case with a non-empty nextDate is in the derived index
\* exactly once, under the key of its nextDate's calendar date, and once it is
\* saved again as Decided the re-derived index holds it under no key.
C5_IndexFollowsStatus == []C5_PendingDatedIndexed /\ C5_DecidedLeavesIndex

\* C6: the counters satisfy total = number of cases and
\* pending + decided <= total.
C6_Counters ==
    /\ CaseStats(cases).total = Len(cases)
    /\ CaseStats(cases).pending + CaseStats(cases).decided <= CaseStats(cases).total

\* The counters of a collection of two cases, one Pending and one whose
\* status is neither Pending nor Decided: pending + decided < total.
C6_Witness ==
    /\ CaseStats(cases).total = 2
    /\ CaseStats(cases).pending = 1
    /\ CaseStats(cases).decided = 0

\* C7: every case of the collection has status Pending or Decided, so
\* pending + decided = total.
C7_StatusEnumerated ==
    /\ \A i \in 1..Len(cases) : cases[i].status \in {"Pending", "Decided"}
    /\ CaseStats(cases).pending + CaseStats(cases).decided = CaseStats(cases).total

\* A collection is well-formed when each of its cases has the members that
\* types.ts requires of a Case, its status one of the two of the enumeration.
C8_WellFormed(cs) ==
    \A i \in 1..Len(cs) :
        /\ Truthy(cs[i].id)
        /\ cs[i].status \in {"Pending", "Decided"}
        /\ cs[i].nextDate # Absent
        /\ cs[i].title # Absent
        /\ cs[i].caseNumber # Absent
        /\ cs[i].courtName # Absent

\* C8: a confirmed import of the file the last export wrote, whatever
\* happened since the export, sets the collection of a mounted App to the
\* collection that was exported, when that collection is well-formed.
C8_RoundTrip ==
    [][\A k \in 1..Len(reads) :
          (/\ reads[k] = exportFile
           /\ C8_WellFormed(exported)
           /\ ~crashed
           /\ ReaderLoads(k, TRUE)) =>
             /\ cases' = exported
             /\ alertMsg' = ImportedAlert]_vars

\* The export of a well-formed collection of two, one entry of it without
\* next date, has been imported back in the calendar view, over a collection
\* the user had left by then.
C8_Witness ==
    /\ lastOp = "import"
    /\ alertMsg = ImportedAlert
    /\ currentView = "calendar"
    /\ cases = exported
    /\ exportFile = Stringify(cases)
    /\ C8_WellFormed(cases)
    /\ Len(cases) = 2
    /\ \E i \in 1..Len(cases) : cases[i].nextDate = ""

\* A file the import must refuse: not JSON, not an array, or an array whose
\* first element has no identifier.
Malformed(f) ==
    \/ f.kind # "array"
    \/ /\ Len(f.elems) > 0
       /\ ~\E p \in f.elems[1] : p[1] = "id" /\ p[2] # ""

\* C9: the import of a malformed file is refused with an error message, the
\* user is not asked to confirm, and the collection stays exactly as it was.
C9_MalformedRejected ==
    [][\A k \in 1..Len(reads), answer \in BOOLEAN :
          (Malformed(reads[k]) /\ ReaderLoads(k, answer)) =>
                  /\ cases' = cases
                  /\ alertMsg' \in {ParseErrorAlert, FormatErrorAlert}
                  /\ confirmResult' = "none"]_vars

\* An import was refused for its format while the collection held two cases.
C9_Witness ==
    /\ lastOp = "import"
    /\ alertMsg = FormatErrorAlert
    /\ Len(cases) = 2

\* C10: an import replaces the collection only when the user was asked and
\* accepted; when the user declines, the collection is unchanged.
C10_ConfirmedBeforeReplace ==
    [][lastOp' = "import" =>
          /\ (cases' # cases \/ alertMsg' = ImportedAlert) => confirmResult' = "accepted"
          /\ confirmResult' = "declined" => (cases' = cases /\ alertMsg' = "")]_vars

\* The user declined the import of a file while the collection held a case.
C10_Witness ==
    /\ lastOp = "import"
    /\ confirmResult = "declined"
    /\ Len(cases) > 0

\* C11: after an import that was accepted and confirmed, every element of the
\* collection carries an identifier.
C11_ImportedCarryIds ==
    (lastOp = "import" /\ confirmResult = "accepted") =>
        \A i \in 1..Len(cases) : Truthy(cases[i].id)

\* A confirmed import has left a collection of two cases.
C11_Witness ==
    /\ lastOp = "import"
    /\ confirmResult = "accepted"
    /\ Len(cases) = 2

C13_OnlyImportRemoves ==
    [][(\/ Len(cases') < Len(cases)
        \/ \E i \in 1..Len(cases) :
              \A j \in 1..Len(cases') : cases'[j].id # cases[i].id) =>
          (lastOp' = "import" /\ confirmResult' = "accepted")]_vars

\* A save has replaced one of two cases with distinct identifiers, the other
\* one Decided.
C13_Witness ==
    /\ lastOp = "save:replace"
    /\ Len(cases) = 2
    /\ UniqueIds(cases)
    /\ cases[2].status = "Decided"

\* C15: selecting edit on a case, from the calendar or from the search view,
\* sets selectedCase to that case and the view to the case form.
C15_EditOpensForm ==
    [][\A i \in 1..Len(cases) :
          HandleEditCase(cases[i]) =>
              /\ selectedCase' = cases[i]
              /\ currentView' = "add_case"]_vars

\* A Decided case, which only the search view offers, is being edited.
C15_Witness ==
    /\ currentView = "add_case"
    /\ selectedCase # NoCase
    /\ selectedCase.status = "Decided"
    /\ formCase = selectedCase

\* C16: saving and cancelling the case form both end in the calendar view with
\* no selected case; cancelling leaves the collection as it was.
C16_FormReturnsToCalendar ==
    [][/\ CancelForm =>
            /\ currentView' = "calendar"
            /\ selectedCase' = NoCase
            /\ cases' = cases
       /\ lastOp' \in {"save:replace", "save:append"} =>
            \A caseData \in FormResults(formCase, cases) :
                HandleSaveCase(caseData) =>
                    /\ currentView' = "calendar"
                    /\ selectedCase' = NoCase]_vars

\* The edit of a case was cancelled.
C16_Witness ==
    /\ lastOp = "cancel"
    /\ Len(cases) = 2
    /\ currentView = "calendar"

\* C17: selecting the counter of status s moves to the search view with s as
\* its active filter, and the search view shows exactly the cases matching s.
C17_ShortcutFilters ==
    [][\A s \in Filters :
          HandleShowCases(s) =>
              /\ currentView' = "search"
              /\ search'.filterStatus = s
              /\ ~crashed'
              /\ Range(FilteredCases(cases', search'.searchTerm,
                                     search'.filterStatus))
                    = {c \in Range(cases) : s = "All" \/ c.status = s}]_vars

\* The Decided counter was selected while the collection held a Decided and a
\* Pending case.
C17_Witness ==
    /\ currentView = "search"
    /\ initialSearchFilter = "Decided"
    /\ search = [searchTerm |-> "", filterStatus |-> "Decided"]
    /\ \E i, j \in 1..Len(cases) :
          cases[i].status = "Decided" /\ cases[j].status = "Pending"

\* Whether the lower-cased query is a substring of field v of a case, a
\* missing field matching nothing.
C18_FieldMatches(v, query) == v # Absent /\ FieldIncludes(v, query)

\* The positions of the cases the query and the status filter select.
C18_Selected(cs, query, filter) ==
    {i \in 1..Len(cs) :
        /\ \/ C18_FieldMatches(cs[i].title, query)
           \/ C18_FieldMatches(cs[i].caseNumber, query)
           \/ C18_FieldMatches(cs[i].courtName, query)
           \/ C18_FieldMatches(cs[i].caseType, query)
           \/ C18_FieldMatches(cs[i].representing, query)
        /\ filter = "All" \/ cs[i].status = filter}

\* The search produces a result, which holds exactly the selected cases, each
\* as often as the collection holds it.
C18_ExactlySelected ==
    /\ ~crashed
    /\ \A c \in Range(cases) :
          Cardinality({n \in 1..Len(FilteredCases(cases, search.searchTerm,
                                                  search.filterStatus)) :
                         FilteredCases(cases, search.searchTerm,
                                       search.filterStatus)[n] = c})
            = Cardinality({i \in C18_Selected(cases, search.searchTerm,
                                              search.filterStatus) :
                             cases[i] = c})
    /\ Len(FilteredCases(cases, search.searchTerm, search.filterStatus))
          = Cardinality(C18_Selected(cases, search.searchTerm,
                                     search.filterStatus))
    /\ search.searchTerm = "" =>
          C18_Selected(cases, "", "All") = 1..Len(cases)

\* C18: the search result is exactly the cases for which the lower-cased query
\* is a substring of title, case number, court name, case type or represented
\* side (a missing field matching nothing) and whose status passes the filter;
\* the empty query selects every case; searching leaves the collection and
\* its order as they are.
C18_SearchResult == []C18_ExactlySelected /\ [][cases' = cases]_vars

\* A query in capitals has selected one case of three by its title.
C18_Witness ==
    /\ ~crashed
    /\ Len(cases) = 3
    /\ search = [searchTerm |-> "SMI", filterStatus |-> "Pending"]
    /\ Len(FilteredCases(cases, search.searchTerm, search.filterStatus)) = 1

\* C19: the search result is in descending order of next hearing date: of two
\* results that both have a date, the one with the later date comes first,
\* whatever results without a date are among them.
C19_SortedDescending ==
    ~crashed =>
        LET result == FilteredCases(cases, search.searchTerm, search.filterStatus)
        IN  \A i, j \in 1..Len(result) :
                (i < j /\ ValidDate(result[i].nextDate)
                       /\ ValidDate(result[j].nextDate)) =>
                    GetTime(result[i].nextDate) >= GetTime(result[j].nextDate)

\* Three results, one of them without a date, have been sorted.
C19_Witness ==
    /\ ~crashed
    /\ Len(FilteredCases(cases, search.searchTerm, search.filterStatus)) = 3
    /\ \E i \in 1..3 :
          FilteredCases(cases, search.searchTerm, search.filterStatus)[i].nextDate = ""

\* C14, the button: Add to History with a non-blank diary puts exactly one new
\* entry, made of the diary, first, keeps the entries there were after it as
\* they were, and clears the diary; with a blank diary it changes nothing.
C14_AddPrepends ==
    [][(lastOp' = "addHistory" /\ HandleAddHistory) =>
          IF Blank(form.caseData.diaryNotes)
          THEN form' = form
          ELSE /\ Len(form'.caseData.history) = Len(form.caseData.history) + 1
               /\ Head(form'.caseData.history).proceedings = form.caseData.diaryNotes
               /\ Tail(form'.caseData.history) = form.caseData.history
               /\ form'.caseData.diaryNotes = ""]_vars

\* C14, every form operation: the entries there were are still there, as
\* they were and in their order, after whatever entries were added in front.
C14_EntriesKept ==
    [][(form.mounted /\ form'.mounted) =>
          /\ Len(form'.caseData.history) >= Len(form.caseData.history)
          /\ SubSeq(form'.caseData.history,
                    Len(form'.caseData.history) - Len(form.caseData.history) + 1,
                    Len(form'.caseData.history)) = form.caseData.history]_vars

\* C14: Add to History prepends one entry and clears the diary, or does
\* nothing when the diary is blank, and no form operation changes, reorders or
\* removes an entry of the history.
C14_HistoryPrepended == C14_AddPrepends /\ C14_EntriesKept

\* An entry was added in front of an older one.
C14_Witness ==
    /\ lastOp = "addHistory"
    /\ Len(form.caseData.history) = 2
    /\ form.caseData.history[1].date = Today
    /\ form.caseData.history[2] = OldEntry
    /\ form.caseData.diaryNotes = ""

\* The steps that end an AI operation.
C20_Ends == {"ai:predict", "ai:generate", "ai:review", "ai:chat"}

\* C20, the operations whose answer the handler shows as it is or decodes:
\* without an API key the stage suggestion, the draft and the error of the
\* analysis are the sentinel and the loading flag is false.
C20_Shown ==
    /\ lastOp' = "ai:predict" =>
          form'.predictedStage = ApiKeyMissing /\ ~form'.isPredicting
    /\ lastOp' = "ai:generate" =>
          tool'.draft = ApiKeyMissing /\ ~tool'.isLoading
    /\ lastOp' = "ai:review" =>
          tool'.analysis = AnalysisOf({<<"error", ApiKeyMissing>>}) /\ ~tool'.isLoading

\* C20, the chat: without an API key the answer put in the chat is the
\* sentinel and the loading flag is false.
C20_Chat ==
    lastOp' = "ai:chat" =>
        /\ tool'.chatHistory[Len(tool'.chatHistory)].role = "model"
        /\ tool'.chatHistory[Len(tool'.chatHistory)].content = <<Prose(ApiKeyMissing)>>
        /\ ~tool'.isLoading

\* C20: without an API key every AI operation ends without a throw, what it
\* delivers is the message "API Key not configured.", the handler's loading
\* flag is false again and the collection of cases is what it was.
C20_NoKeySentinel ==
    [][(~apiKey /\ lastOp' \in C20_Ends) =>
          /\ cases' = cases
          /\ saved' = saved
          /\ crashed' = crashed
          /\ C20_Shown
          /\ C20_Chat]_vars

\* C20 without the chat.
C20_NoKeyShown ==
    [][(~apiKey /\ lastOp' \in C20_Ends) =>
          /\ cases' = cases
          /\ saved' = saved
          /\ crashed' = crashed
          /\ C20_Shown]_vars

\* A chat answer has ended without an API key.
C20_Witness ==
    /\ ~apiKey
    /\ lastOp = "ai:chat"
    /\ ~tool.isLoading
    /\ tool.chatHistory[Len(tool.chatHistory)].role = "model"

\* The text holds an object JSON.parse accepts between its first opening
\* brace and its last closing brace.
C21_Parseable(text) ==
    \E i, j \in 1..Len(text) :
        /\ i < j
        /\ text[i] = LBrace /\ \A m \in 1..(i - 1) : text[m] # LBrace
        /\ text[j] = RBrace /\ \A m \in (j + 1)..Len(text) : text[m] # RBrace
        /\ \A m \in (i + 1)..(j - 1) : text[m].t = "member"

\* C21, the end of a review: when the accumulated text holds no parseable
\* object the analysis set is an error with a diagnostic message, and the
\* loading flag is false.
C21_ErrorAnalysis ==
    [][\A k \in 1..Len(tool.tasks) :
          (lastOp' = "ai:review" /\ ReviewEnds(k)
             /\ ~C21_Parseable(tool.tasks[k].fullResponse)) =>
              /\ tool'.analysis.present
              /\ Member(tool'.analysis.obj, "error") \in {NoJsonError, SyntaxError}
              /\ ~tool'.isLoading]_vars

\* C21, every review: a review that has started ends, with the loading flag
\* false and an analysis set.
C21_ReviewEnds ==
    (\E k \in 1..Len(tool.tasks) : tool.tasks[k].kind = "review")
        ~> (lastOp = "ai:review" /\ ~tool.isLoading /\ tool.analysis.present)

\* C21: a review whose text holds no parseable JSON object ends with an
\* error analysis carrying a diagnostic message and with the loading flag
\* false, and every started review ends with loading false and an analysis.
C21_UnparseableSurfaced == C21_ErrorAnalysis /\ C21_ReviewEnds

\* A review has ended on text that holds braces but no object.
C21_Witness ==
    /\ lastOp = "ai:review"
    /\ ~tool.isLoading
    /\ tool.analysis = AnalysisOf({<<"error", SyntaxError>>})

RECURSIVE C22_Concat(_)
\* The chunks of a stream, joined.
C22_Concat(chunks) ==
    IF chunks = <<>> THEN <<>> ELSE Head(chunks) \o C22_Concat(Tail(chunks))

\* The stream of the request was interrupted after some chunks: it ends with
\* the error the generator yields for what the gateway threw.
C22_Interrupted(task) ==
    /\ Len(task.stream) >= 2
    /\ task.stream[Len(task.stream)] \in
          {StringifyError(ReviewFailed), StringifyError(ChatFailed)}

\* The text that had arrived before the interruption.
C22_Partial(task) == C22_Concat(SubSeq(task.stream, 1, Len(task.stream) - 1))

\* The texts the tool has on screen, in whatever mode: the streamed text
\* while loading (lines 721 and 788), the messages of the chat (line 773) and,
\* when not loading, the members of the analysis (lines 729-743).
C22_Displayed(t) ==
    (IF t.isLoading THEN {t.rawStreamedText} ELSE {})
    \cup {t.chatHistory[i].content : i \in 1..Len(t.chatHistory)}
    \cup (IF ~t.isLoading /\ t.analysis.present
          THEN {<<Prose(m[2])>> : m \in t.analysis.obj} ELSE {})

\* C22 for the requests of the given kinds.
C22_Kept(kinds) ==
    \A k \in 1..Len(tool.tasks) :
        (/\ lastOp' \in {"ai:review", "ai:chat"}
         /\ tool.tasks[k].kind \in kinds
         /\ ReviewEnds(k) \/ ChatEnds(k)
         /\ C22_Interrupted(tool.tasks[k])) =>
            /\ ~tool'.isLoading
            /\ tool'.tasks = <<>>
            /\ \E text \in C22_Displayed(tool') :
                  Includes(text, C22_Partial(tool.tasks[k]))

\* C22: when a streamed review or chat answer is interrupted after some
\* chunks, the operation ends with the loading flag false and no new request,
\* and the text that had arrived is still on screen.
C22_PartialKept == [][C22_Kept({"review", "chat"})]_vars

\* C22 for the chat alone.
C22_ChatKept == [][C22_Kept({"chat"})]_vars

\* An interrupted review has ended.
C22_Witness ==
    /\ lastOp = "ai:review"
    /\ ~tool.isLoading
    /\ Len(tool.rawStreamedText) > 3
    /\ SubSeq(tool.rawStreamedText, Len(tool.rawStreamedText) - 2,
              Len(tool.rawStreamedText)) = StringifyError(ReviewFailed)

\* The chunks of the request that have arrived, joined in their order.
C23_Received(task) ==
    C22_Concat(SubSeq(task.stream, 1, Len(task.stream) - Len(task.rest)))

\* C23, every state: while a review or a chat answer is streamed the buffer
\* shown is the chunks received so far, joined in their order.
C23_Buffer ==
    \A k \in 1..Len(tool.tasks) :
        tool.tasks[k].kind \in {"review", "chat"} =>
            tool.rawStreamedText = C23_Received(tool.tasks[k])

\* C23, every step of a stream: the buffer is kept or grows by the chunk
\* that arrives.
C23_Grows ==
    \A k \in 1..Len(tool.tasks) :
        (tool.tasks[k].kind \in {"review", "chat"} /\ Len(tool'.tasks) = Len(tool.tasks)) =>
            \/ tool'.rawStreamedText = tool.rawStreamedText
            \/ /\ tool.tasks[k].rest # <<>>
               /\ tool'.rawStreamedText = tool.rawStreamedText \o Head(tool.tasks[k].rest)

\* C23, the extraction: an analysis is set only by the step that ends a
\* review, whose stream has yielded every chunk, from the whole text, and the
\* review is then over.
C23_ExtractedAtEnd ==
    (tool'.analysis # tool.analysis /\ tool'.analysis.present) =>
        \E k \in 1..Len(tool.tasks) :
            /\ tool.tasks[k].kind = "review"
            /\ tool.tasks[k].rest = <<>>
            /\ tool'.analysis = Reviewed(C22_Concat(tool.tasks[k].stream))
            /\ tool'.tasks = RemoveAt(tool.tasks, k)

\* C23: the buffer shown during a streamed response is at every step the
\* chunks received so far in arrival order and only grows, and the JSON of a
\* review is extracted once, after the stream has ended, from the whole text.
C23_StreamedInOrder ==
    []C23_Buffer /\ [][C23_Grows /\ C23_ExtractedAtEnd]_vars

\* Both chunks of an analysis have arrived and the review has not ended.
C23_Witness ==
    \E k \in 1..Len(tool.tasks) :
        /\ tool.tasks[k].kind = "review"
        /\ Len(tool.tasks[k].stream) = 2
        /\ tool.tasks[k].rest = <<>>
        /\ tool.rawStreamedText = tool.tasks[k].stream[1] \o tool.tasks[k].stream[2]

\* C24: there is no fencing of stage predictions: whichever call resolves
\* puts its answer on screen, and this also when a call made after it, for a
\* later diary, has already resolved; so with two calls in flight the
\* prediction shown once both have resolved is that of the one that resolved
\* last.
C24_LastArrivalShown ==
    [][\A k \in 1..Len(form.requests) :
          (lastOp' = "ai:predict" /\ PredictionArrives(k)) =>
              /\ form'.predictedStage = form.requests[k].prediction
              /\ form'.shown.notes = form.requests[k].notes
              /\ ~form'.isPredicting]_vars

\* Two calls have resolved and the answer on screen is that of the earlier
\* one, made for a diary that has been replaced since.
C24_Witness ==
    /\ lastOp = "ai:predict"
    /\ form.requests = <<>>
    /\ form.shown.stale
    /\ form.predictedStage = form.shown.prediction
    /\ form.shown.notes # form.caseData.diaryNotes

\* The messages handleFileChange ends with when the upload failed.
C25_Errors == {ErrorMessage(file) : file \in Files}

\* C25: an upload that fails, for its type or during its conversion, ends
\* with an error message, with the processing flag false and with no
\* extracted text as input of the review.
C25_FailedUploadEmpty ==
    [][(lastOp' = "upload:end" /\ tool'.processingMessage \in C25_Errors) =>
          /\ ~tool'.isProcessingFile
          /\ tool'.uploadedText = ""]_vars

\* C25 for the uploads whose text was not yet set when they failed.
C25_FailedBeforeText ==
    [][\A k \in 1..Len(tool.uploads) :
          (/\ lastOp' = "upload:end"
           /\ tool'.processingMessage \in C25_Errors
           /\ UploadResumes(k, FALSE)
           /\ tool.uploads[k].stage # "terminating") =>
              /\ ~tool'.isProcessingFile
              /\ tool'.uploadedText = ""]_vars

\* An upload has failed and the review has a text as input.
C25_Witness ==
    /\ lastOp = "upload:end"
    /\ tool.processingMessage \in C25_Errors
    /\ ~tool.isProcessingFile
    /\ tool.uploadedText # ""

\* C26, the router: a case is selected only while the Case Form is the view.
C26_SelectedOnlyInForm == selectedCase # NoCase => currentView = "add_case"

\* C26, the form: the Case Form shown while no case is selected is the form
\* of a new case.
C26_NewFormIsNew ==
    (~crashed /\ currentView = "add_case" /\ selectedCase = NoCase) => formCase = NoCase

\* C26: selectedCase is non-null only while the view is the Case Form, every
\* way out of the form leaving it null, so that the form opened for a new case
\* never carries a case selected earlier.
C26_NoStaleSelection == C26_SelectedOnlyInForm /\ C26_NewFormIsNew

\* The Case Form is on screen with no case selected and holds the data of a
\* case selected earlier.
C26_Witness ==
    /\ ~crashed
    /\ currentView = "add_case"
    /\ selectedCase = NoCase
    /\ formCase # NoCase

\* The messages predictNextStage returns when it has no prediction.
C27_Sentinels == {ApiKeyMissing, PredictFailed}

\* C27, the accept button: a suggestion that is a sentinel leaves
\* currentStage as it is.
C27_SentinelIgnored ==
    [][(ApplyPredictedStage /\ form.predictedStage \in C27_Sentinels) =>
          form'.caseData.currentStage = form.caseData.currentStage]_vars

\* C27, every state: currentStage is not a sentinel.
C27_StageNotSentinel == form.caseData.currentStage \notin C27_Sentinels

\* C27: accepting a suggestion never sets currentStage to "API Key not
\* configured." or "Could not predict next stage."; a suggestion that is one
\* of them leaves currentStage unchanged.
C27_NoSentinelStage == []C27_StageNotSentinel /\ C27_SentinelIgnored

\* C27 for "Could not predict next stage." alone.
C27_FailureIgnored ==
    [][(ApplyPredictedStage /\ form.predictedStage = PredictFailed) =>
          form' = form]_vars

\* A sentinel has been accepted as the stage of the case.
C27_Witness ==
    /\ form.mounted
    /\ form.caseData.currentStage \in C27_Sentinels
    /\ form.predictedStage = ""

\* C28, every state: at most one request of the tool is in flight, and the
\* loading flag is true exactly while one is.
C28_OneInFlight ==
    /\ Len(tool.tasks) <= 1
    /\ tool.isLoading = (tool.tasks # <<>>)

\* C28, every step: no request is started while the loading flag is true,
\* whatever the mode.
C28_NoneStartedWhileLoading ==
    Len(tool'.tasks) > Len(tool.tasks) => ~tool.isLoading

\* C28: the drafting tool has at most one AI request in flight across its
\* three modes: none can be started while the shared loading flag is true, and
\* the flag is true exactly while a request is in flight.
C28_SingleRequest == []C28_OneInFlight /\ [][C28_NoneStartedWhileLoading]_vars

\* A message was submitted in the chat while a draft was being generated,
\* and was ignored.
C28_Witness ==
    /\ lastOp = "send"
    /\ tool.isLoading
    /\ Len(tool.tasks) = 1
    /\ tool.tasks[1].kind = "generate"
    /\ ~Blank(tool.userMessage)

\* C29: an analysis on screen (analysis set, not loading) was made for the
\* uploaded text on screen, also when a file is uploaded while the review of
\* the file before it is in flight.
C29_AnalysisOfShownText ==
    (~crashed /\ tool.mounted /\ tool.analysis.present /\ ~tool.isLoading) =>
        tool.analysedText = tool.uploadedText

\* The analysis of one file is on screen next to the text of another.
C29_Witness ==
    /\ ~crashed
    /\ tool.analysis.present
    /\ ~tool.isLoading
    /\ tool.uploadedText = "Plaint"
    /\ tool.analysedText = "Bail"

\* C30, every state: the messages of the chat are by turns the user's and
\* the model's, the first being the user's.
C30_Alternates ==
    \A i \in 1..Len(tool.chatHistory) :
        tool.chatHistory[i].role = IF i % 2 = 1 THEN "user" ELSE "model"

\* C30, every step: a submit with a message that is not blank and nothing
\* loading appends that one user message, any other submit changes nothing;
\* the end of the stream appends one model message; no other step changes the
\* chat.
C30_OnePerStep ==
    /\ lastOp' = "send" =>
          tool'.chatHistory =
              IF Blank(tool.userMessage) \/ tool.isLoading THEN tool.chatHistory
              ELSE Append(tool.chatHistory,
                          [role |-> "user", content |-> <<Prose(tool.userMessage)>>])
    /\ lastOp' = "ai:chat" =>
          /\ Len(tool'.chatHistory) = Len(tool.chatHistory) + 1
          /\ SubSeq(tool'.chatHistory, 1, Len(tool.chatHistory)) = tool.chatHistory
          /\ tool'.chatHistory[Len(tool'.chatHistory)].role = "model"
    /\ lastOp' \notin {"send", "ai:chat"} => tool'.chatHistory = tool.chatHistory

\* C30: the chat history alternates user and model messages starting with
\* the user: an accepted send appends one user message and the end of its
\* stream one model message, and a send while loading or with a blank message
\* is ignored.
C30_ChatAlternates == []C30_Alternates /\ [][C30_OnePerStep]_vars

\* Two questions have been answered.
C30_Witness ==
    /\ lastOp = "ai:chat"
    /\ Len(tool.chatHistory) = 4
    /\ tool.chatHistory[3].role = "user"
    /\ tool.chatHistory[4].role = "model"

====
